---- MODULE Spec2Model ----
(***************************************************************************)
(* A model of mcp-kb-server: the memory tools (src/tools/memory.js) with   *)
(* the query cache (src/utils/performance.js), the knowledge-base tools    *)
(* (src/tools/kb.js) with the external vector index, and the request       *)
(* scheduler and protocol handshake of src/server.js.                      *)
(*                                                                         *)
(* Strings that the code inspects (content, queries, tags, the tags JSON   *)
(* column) are sequences of one-character strings.  Timestamps are         *)
(* milliseconds; an ISO timestamp column is modelled by the instant it     *)
(* denotes, and NULL / undefined by the value NULL.                        *)
(***************************************************************************)
EXTENDS Integers, Sequences, FiniteSets, TLC

\* ---------------------------------------------------------------- bounds
MaxEntries == 2
MaxCached == 1
MaxTicks == 1
MaxAdds == 3
MaxChunks == 2
MaxBatch == 2
MaxListed == 4
MaxAdvances == 3
MaxKeys == 52
MaxRetries == 3

\* ------------------------------------------------------------- constants
NULL == -1
PURGE_INTERVAL_MS == 60000
CACHE_TTL_MS == 300000
CACHE_MAX_SIZE == 50
DEFAULT_LIMIT == 5
MAX_LIMIT == 100
T0 == 100000
DEFAULT_SCOPE == "default"
Undefined == "<undefined>"
OFFSET_MS == 18000000

VARIABLES
  now,         \* Date.now()
  ticks,       \* number of clock advances so far
  memory,      \* rows of table memory
  memory_fts,  \* rows of the shadow table memory_fts
  queryCache,  \* LRUCache.cache: entries in Map insertion order
  lastPurge,   \* lastPurge map of purgeExpired
  nextId,      \* number of ids handed out by crypto.randomUUID()
  lastMem,     \* the last memory tool call and what it returned
  pager        \* a client that reads a project page by page with memory.list

memVars == <<now, ticks, memory, memory_fts, queryCache, lastPurge, nextId, lastMem, pager>>

VARIABLES
  kb_fts,      \* rows of table kb_fts
  kb_meta,     \* rows of table kb_meta
  qdrant,      \* the external vector index: its collection and points
  kbOps,       \* kb.add calls suspended on a request to the vector index
  addCount,    \* number of kb.add calls that reached the insert
  vecDocs,     \* the documents added with a vector
  lastKb       \* the last kb.add step and how it ended

kbVars == <<kb_fts, kb_meta, qdrant, kbOps, addCount, vecDocs, lastKb>>

VARIABLES
  initialized, \* let initialized
  stdinEnded,  \* let stdinEnded
  inFlight,    \* let inFlight
  exited,      \* the call of maybeExit that ended the process, "no" while it runs
  chunks,      \* number of 'data' events so far
  tasks,       \* the runs of the 'data' callback: messages left, request awaited
  running,     \* the run that holds the thread, 0 when the event loop is idle
  decoded,     \* ids of the requests decoded so far
  out,         \* the responses written to stdout, in order
  initAccepted,\* an initialize request was accepted
  initPending, \* no notifications/initialized since the last accepted initialize
  lastSrv,     \* the message handled last, the state it met and its response
  lastErr      \* the error thrown last while a request was handled, and its request

srvVars == <<initialized, stdinEnded, inFlight, exited, chunks, tasks, running, decoded, out,
             initAccepted, initPending, lastSrv, lastErr>>

VARIABLES
  input,       \* the characters the client sends on this connection, in order
  fed,         \* number of characters of input delivered in 'data' events
  several,     \* input was delivered in more than one chunk
  framing,     \* let framing
  buffer,      \* state.buffer
  parsed       \* the values the parsers have returned so far, in order

frVars == <<input, fed, several, framing, buffer, parsed>>

VARIABLES
  reference,   \* a reference LRU cache: its entries, each with its rank of use
  keysUsed,    \* number of keys the client of the cache has used
  lastCache,   \* the last call on the cache, what it and the reference returned
  retry        \* a call of the function retryOperation returns: its loop

utilVars == <<reference, keysUsed, lastCache, retry>>

\* --------------------------------------------------------------- strings
Min(a, b) == IF a < b THEN a ELSE b
Max(a, b) == IF a > b THEN a ELSE b

Take(s, n) == SubSeq(s, 1, Min(n, Len(s)))

Drop_none(s, n) == s

Drop(s, n) == SubSeq(s, Min(n, Len(s)) + 1, Len(s))

\* String.prototype.trim over the blank character " "
RECURSIVE TrimLeft(_)
TrimLeft(s) == IF s # <<>> /\ Head(s) = " " THEN TrimLeft(Tail(s)) ELSE s

RECURSIVE TrimRight(_)
TrimRight(s) == IF s # <<>> /\ s[Len(s)] = " " THEN TrimRight(SubSeq(s, 1, Len(s) - 1)) ELSE s

Trim(s) == TrimRight(TrimLeft(s))

\* SQLite LIKE folds ASCII case
Lower(c) == IF c = "A" THEN "a" ELSE IF c = "T" THEN "t" ELSE c

MatchAt(text, pat, i) == \A k \in 1..Len(pat) : Lower(text[i + k - 1]) = Lower(pat[k])

\* text LIKE '%' || escapeLike(pat) || '%' ESCAPE '\'
Like(text, pat) == \E i \in 1..(Len(text) - Len(pat) + 1) : MatchAt(text, pat, i)

\* JSON.stringify of an array of strings
RECURSIVE StringifyItems(_)
StringifyItems(tags) ==
  IF tags = <<>> THEN <<>>
  ELSE <<"\"">> \o Head(tags) \o <<"\"">> \o
       (IF Len(tags) > 1 THEN <<",">> ELSE <<>>) \o StringifyItems(Tail(tags))

Stringify(tags) == <<"[">> \o StringifyItems(tags) \o <<"]">>

\* JSON.parse of the text of an array of strings
RECURSIVE ParseItems(_, _, _, _)
ParseItems(json, inString, cur, acc) ==
  IF json = <<>> THEN acc
  ELSE IF Head(json) = "\"" THEN
         IF inString THEN ParseItems(Tail(json), FALSE, <<>>, Append(acc, cur))
         ELSE ParseItems(Tail(json), TRUE, <<>>, acc)
  ELSE IF inString THEN ParseItems(Tail(json), TRUE, Append(cur, Head(json)), acc)
  ELSE ParseItems(Tail(json), FALSE, cur, acc)

Parse(json) == ParseItems(json, FALSE, <<>>, <<>>)

\* an optional column or argument: NULL/undefined, or a value
None == [isNull |-> TRUE, v |-> <<>>]
Some(x) == [isNull |-> FALSE, v |-> x]

\* ---------------------------------------------------------------- memory.js
asLimit_uncapped(value, defaultValue) ==
  IF value = NULL \/ value <= 0 THEN defaultValue ELSE value

asLimit(value, defaultValue) ==
  IF value = NULL THEN defaultValue
  ELSE IF value <= 0 THEN defaultValue
  ELSE Min(value, MAX_LIMIT)

\* (scope ?? DEFAULT_SCOPE).trim() || DEFAULT_SCOPE
resolveScope(scope) ==
  IF scope = Undefined THEN DEFAULT_SCOPE
  ELSE IF scope = "" \/ scope = " " THEN DEFAULT_SCOPE
  ELSE scope

\* the rowid SQLite gives a new row of a rowid table: max(rowid) + 1
NextRowid(rows) ==
  IF rows = {} THEN 1
  ELSE (CHOOSE m \in {r.rowid : r \in rows} : \A r \in rows : r.rowid <= m) + 1

\* ORDER BY created_at DESC, over the (project_id, created_at) index read backwards
Newer(r, q) ==
  \/ r.created_at > q.created_at
  \/ r.created_at = q.created_at /\ r.rowid > q.rowid

RECURSIVE OrderByCreatedDesc(_)
OrderByCreatedDesc(rows) ==
  IF rows = {} THEN <<>>
  ELSE LET m == CHOOSE r \in rows : \A q \in rows \ {r} : Newer(r, q)
       IN <<m>> \o OrderByCreatedDesc(rows \ {m})

TagsText(r) == IF r.tags.isNull THEN <<>> ELSE r.tags.v

\* Timestamp texts.  A text is coded by a number so that the order of the
\* codes is the byte order SQLite compares the texts in: the wall-clock
\* digits first, and then "+05:00" before ".000Z".
\* new Date(t).toISOString(): the text of the instant t, in UTC
toISOString(t) == 2 * t + 1

\* the text of the instant t written with the offset +05:00
WithOffset(t) == 2 * (t + OFFSET_MS)

\* the instant a timestamp text denotes
Instant(text) == IF text % 2 = 1 THEN text \div 2 ELSE (text \div 2) - OFFSET_MS

getByIdStmt_anyProject(mem, id, project_id) ==
  {r \in mem : r.id = id}

getByIdStmt(mem, id, project_id) ==
  {r \in mem : r.id = id /\ r.project_id = project_id}

selectExpiredStmt(mem, project_id, nowIso) ==
  {r \in mem : r.project_id = project_id /\ r.expires_at # NULL /\ r.expires_at <= nowIso}

\* tags LIKE ? is NULL, hence not true, on a NULL tags column
searchByQueryStmt(mem, scope, project_id, pattern, limit) ==
  Take(OrderByCreatedDesc({r \in mem :
         /\ r.scope = scope /\ r.project_id = project_id
         /\ (Like(r.content, pattern) \/ (~r.tags.isNull /\ Like(r.tags.v, pattern)))}), limit)

latestStmt(mem, scope, project_id, limit) ==
  Take(OrderByCreatedDesc({r \in mem : r.scope = scope /\ r.project_id = project_id}), limit)

searchByTagStmt_anyProject(mem, project_id, tagPattern, limit) ==
  Take(OrderByCreatedDesc({r \in mem : ~r.tags.isNull /\ Like(r.tags.v, tagPattern)}), limit)

searchByTagStmt(mem, project_id, tagPattern, limit) ==
  Take(OrderByCreatedDesc({r \in mem :
         r.project_id = project_id /\ ~r.tags.isNull /\ Like(r.tags.v, tagPattern)}), limit)

searchByTagAndScopeStmt(mem, scope, project_id, tagPattern, limit) ==
  Take(OrderByCreatedDesc({r \in mem :
         /\ r.scope = scope /\ r.project_id = project_id
         /\ ~r.tags.isNull /\ Like(r.tags.v, tagPattern)}), limit)

\* FTS5 unicode61 tokens of a text: maximal runs of letters, case folded
RECURSIVE Tokens(_, _, _)
Tokens(text, cur, acc) ==
  IF text = <<>> THEN (IF cur = <<>> THEN acc ELSE Append(acc, cur))
  ELSE IF Head(text) \in {" ", "[", "]", "\"", ","}
       THEN Tokens(Tail(text), <<>>, IF cur = <<>> THEN acc ELSE Append(acc, cur))
  ELSE Tokens(Tail(text), Append(cur, Lower(Head(text))), acc)

PhraseIn(text, phrase) ==
  LET t == Tokens(text, <<>>, <<>>)
      p == Tokens(phrase, <<>>, <<>>)
  IN p # <<>> /\ \E i \in 1..(Len(t) - Len(p) + 1) : \A k \in 1..Len(p) : t[i + k - 1] = p[k]

\* bm25 ranks a match in a shorter row first; equal ranks come in rowid order
Bm25Before(f, g) ==
  LET lf == Len(Tokens(f.content, <<>>, <<>>)) + Len(Tokens(f.tags, <<>>, <<>>))
      lg == Len(Tokens(g.content, <<>>, <<>>)) + Len(Tokens(g.tags, <<>>, <<>>))
  IN lf < lg \/ (lf = lg /\ f.rowid < g.rowid)

RECURSIVE OrderByBm25(_)
OrderByBm25(pairs) ==
  IF pairs = {} THEN <<>>
  ELSE LET m == CHOOSE x \in pairs : \A y \in pairs \ {x} : Bm25Before(x.f, y.f)
       IN <<m.m>> \o OrderByBm25(pairs \ {m})

ftsSearchStmt(mem, fts, scope, project_id, query, limit) ==
  Take(OrderByBm25({x \in [m : {r \in mem : r.scope = scope /\ r.project_id = project_id},
                            f : {g \in fts : PhraseIn(g.content, query) \/ PhraseIn(g.tags, query)}] :
                      x.f.rowid = x.m.rowid}), limit)

NotExpired(r, nowIso) == r.expires_at = NULL \/ r.expires_at > nowIso

countStmt(mem, project_id, nowIso) ==
  Cardinality({r \in mem : r.project_id = project_id /\ NotExpired(r, nowIso)})

countByScopeStmt(mem, project_id, scope, nowIso) ==
  Cardinality({r \in mem : r.project_id = project_id /\ r.scope = scope /\ NotExpired(r, nowIso)})

listAllStmt(mem, project_id, nowIso, limit, offset) ==
  Take(Drop(OrderByCreatedDesc({r \in mem : r.project_id = project_id /\ NotExpired(r, nowIso)}), offset), limit)

listByScopeStmt(mem, project_id, scope, nowIso, limit, offset) ==
  Take(Drop(OrderByCreatedDesc({r \in mem :
         r.project_id = project_id /\ r.scope = scope /\ NotExpired(r, nowIso)}), offset), limit)

formatRow(r) ==
  [id |-> r.id, scope |-> r.scope, project_id |-> r.project_id, content |-> r.content,
   tags |-> IF r.tags.isNull THEN None ELSE Some(Parse(r.tags.v)),
   created_at |-> r.created_at, updated_at |-> r.updated_at, expires_at |-> r.expires_at]

RECURSIVE MapFormat(_)
MapFormat(rows) == IF rows = <<>> THEN <<>> ELSE <<formatRow(Head(rows))>> \o MapFormat(Tail(rows))

\* ------------------------------------------------------- performance.js
HasKey(cache, key) == \E i \in 1..Len(cache) : cache[i].key = key

IndexOf(cache, key) == CHOOSE i \in 1..Len(cache) : cache[i].key = key

Without(cache, key) == SelectSeq(cache, LAMBDA e : e.key # key)

LRUGet_noTouch(cache, key) ==
  IF HasKey(cache, key)
  THEN [cache |-> cache, found |-> TRUE, value |-> cache[IndexOf(cache, key)]]
  ELSE [cache |-> cache, found |-> FALSE, value |-> [key |-> key]]

\* LRUCache.get: a hit moves the entry to the end (most recently used)
LRUGet(cache, key) ==
  IF HasKey(cache, key)
  THEN [cache |-> Append(Without(cache, key), cache[IndexOf(cache, key)]),
        found |-> TRUE, value |-> cache[IndexOf(cache, key)]]
  ELSE [cache |-> cache, found |-> FALSE, value |-> [key |-> key]]

\* LRUCache.set
LRUSet(cache, entry, maxSize) ==
  IF HasKey(cache, entry.key) THEN Append(Without(cache, entry.key), entry)
  ELSE IF Len(cache) >= maxSize THEN Append(Tail(cache), entry)
  ELSE Append(cache, entry)

getCachedQuery(cache, key, t) ==
  LET g == LRUGet(cache, key)
  IN IF g.found /\ g.value.expires > t THEN g
     ELSE IF g.found THEN [cache |-> Without(g.cache, key), found |-> FALSE, value |-> [key |-> key]]
     ELSE g

setCachedQuery(cache, key, result, ttl, t) ==
  LRUSet(cache, [key |-> key, result |-> result, expires |-> t + ttl], CACHE_MAX_SIZE)

clearQueryCache_keep(cache) == cache

clearQueryCache(cache) == <<>>

\* createQueryKey("memory_search", {...}): JSON.stringify of the parameter
\* tuple, which is one-to-one on it
createQueryKey(project_id, scope, query, tag, limit, useFts) ==
  [project_id |-> project_id, scope |-> scope, query |-> query, tag |-> tag,
   limit |-> limit, useFts |-> useFts]

\* ------------------------------------------------------- memory.js tools
\* The handlers are functions of the store S = [memory, memory_fts,
\* queryCache, lastPurge, nextId], the arguments and the time t of the call;
\* they yield the store after the call and the returned value ret.

\* Throttled purge: at most once per 60 seconds per project
Throttled_global(last, project_id, t) ==
  \E p \in DOMAIN last : last[p] # 0 /\ t - last[p] < PURGE_INTERVAL_MS

\* now - (lastPurge.get(project_id) || 0) < PURGE_INTERVAL_MS
Throttled(last, project_id, t) == t - last[project_id] < PURGE_INTERVAL_MS

purgeExpired(S, project_id, t) ==
  IF Throttled(S.lastPurge, project_id, t) THEN S
  ELSE LET expired == selectExpiredStmt(S.memory, project_id, toISOString(t))
           rowids == {r.rowid : r \in expired}
       IN [S EXCEPT !.lastPurge = [S.lastPurge EXCEPT ![project_id] = t],
                    !.memory_fts = {f \in S.memory_fts : f.rowid \notin rowids},
                    !.memory = IF expired # {} THEN S.memory \ expired ELSE S.memory,
                    !.queryCache = IF expired # {} THEN clearQueryCache(S.queryCache)
                                   ELSE S.queryCache]

NoReturn == [ok |-> TRUE, rows |-> <<>>, hit |-> FALSE, asOf |-> {}, total_count |-> 0,
             has_more |-> FALSE, deleted |-> FALSE, id |-> 0,
             error |-> [code |-> 0, message |-> ""],
             args |-> [content |-> None, tags |-> None, expires_at |-> NULL],
             search |-> [scope |-> Undefined, query |-> <<>>, tag |-> None, limit |-> NULL,
                         use_fts |-> FALSE, effective |-> 0]]

memoryStore(S, a, t) ==
  LET id == S.nextId + 1
      tagsJson == IF a.tags.isNull THEN None ELSE Some(Stringify(a.tags.v))
      row == [id |-> id, rowid |-> NextRowid(S.memory), scope |-> resolveScope(a.scope),
              content |-> a.content, tags |-> tagsJson, created_at |-> t,
              updated_at |-> NULL, expires_at |-> a.expires_at, project_id |-> a.project_id]
      ftsRow == [rowid |-> row.rowid, content |-> a.content, tags |-> TagsText(row)]
  IN [S |-> [S EXCEPT !.nextId = id,
                      !.memory = S.memory \cup {row},
                      !.memory_fts = IF \E f \in S.memory_fts : f.rowid = row.rowid
                                     THEN S.memory_fts ELSE S.memory_fts \cup {ftsRow},
                      !.queryCache = clearQueryCache(S.queryCache)],
      ret |-> [NoReturn EXCEPT !.id = id]]

\* The rows memory.search computes when the cache has no answer.  A cached
\* result is kept together with asOf, the table it was computed from.
searchRows(S, a) ==
  LET resolvedScope == resolveScope(a.scope)
      trimmed == Trim(a.query)
      limit == asLimit(a.limit, DEFAULT_LIMIT)
      hasTag == ~a.tag.isNull /\ a.tag.v # <<>>
      tagPattern == <<"\"">> \o a.tag.v \o <<"\"">>
      hasScope == a.scope # Undefined /\ a.scope # ""
      rows == IF trimmed = <<>> THEN latestStmt(S.memory, resolvedScope, a.project_id, limit)
              ELSE IF a.use_fts
                   THEN ftsSearchStmt(S.memory, S.memory_fts, resolvedScope, a.project_id, trimmed, limit)
              ELSE searchByQueryStmt(S.memory, resolvedScope, a.project_id, trimmed, limit)
  IN IF hasTag /\ trimmed = <<>>
     THEN MapFormat(IF hasScope
                    THEN searchByTagAndScopeStmt(S.memory, resolvedScope, a.project_id, tagPattern, limit)
                    ELSE searchByTagStmt(S.memory, a.project_id, tagPattern, limit))
     ELSE IF hasTag
          THEN SelectSeq(MapFormat(rows),
                         LAMBDA r : ~r.tags.isNull /\ \E i \in 1..Len(r.tags.v) : r.tags.v[i] = a.tag.v)
     ELSE MapFormat(rows)

memorySearch(S, a, t) ==
  LET P == purgeExpired(S, a.project_id, t)
      cacheKey == createQueryKey(a.project_id, resolveScope(a.scope), Trim(a.query), a.tag,
                                 asLimit(a.limit, DEFAULT_LIMIT), a.use_fts)
      cached == getCachedQuery(P.queryCache, cacheKey, t)
      result == [rows |-> searchRows(P, a), asOf |-> P.memory]
      given == [scope |-> a.scope, query |-> a.query, tag |-> a.tag, limit |-> a.limit,
                use_fts |-> a.use_fts, effective |-> asLimit(a.limit, DEFAULT_LIMIT)]
  IN IF cached.found
     THEN [S |-> [P EXCEPT !.queryCache = cached.cache],
           ret |-> [NoReturn EXCEPT !.rows = cached.value.result.rows, !.hit = TRUE,
                                    !.asOf = cached.value.result.asOf, !.search = given]]
     ELSE [S |-> [P EXCEPT !.queryCache = setCachedQuery(cached.cache, cacheKey, result, CACHE_TTL_MS, t)],
           ret |-> [NoReturn EXCEPT !.rows = result.rows, !.asOf = result.asOf,
                                    !.search = given]]

memoryList(S, a, t) ==
  LET rawLimit == IF a.limit = NULL THEN 50 ELSE a.limit
      offset == Max(0, IF a.offset = NULL THEN 0 ELSE a.offset)
      limit == Min(Max(1, rawLimit), 500)
      P == purgeExpired(S, a.project_id, t)
      hasScope == a.scope # Undefined /\ a.scope # ""
      nowIso == toISOString(t)
      total == IF hasScope THEN countByScopeStmt(P.memory, a.project_id, resolveScope(a.scope), nowIso)
               ELSE countStmt(P.memory, a.project_id, nowIso)
      rows == IF hasScope
              THEN listByScopeStmt(P.memory, a.project_id, resolveScope(a.scope), nowIso, limit, offset)
              ELSE listAllStmt(P.memory, a.project_id, nowIso, limit, offset)
  IN [S |-> P,
      ret |-> [NoReturn EXCEPT !.rows = MapFormat(rows), !.total_count = total,
                               !.has_more = (offset + Len(rows) < total)]]

deleteFtsStmt_keep(fts, rowids) == fts

\* DELETE FROM memory_fts WHERE rowid = ?
deleteFtsStmt(fts, rowids) == {f \in fts : f.rowid \notin rowids}

memoryDelete(S, id, project_id, t) ==
  LET existing == getByIdStmt(S.memory, id, project_id)
  IN IF existing = {} THEN [S |-> S, ret |-> [NoReturn EXCEPT !.id = id]]
     ELSE [S |-> [S EXCEPT !.memory_fts = deleteFtsStmt(S.memory_fts, {r.rowid : r \in existing}),
                           !.memory = S.memory \ existing,
                           !.queryCache = clearQueryCache(S.queryCache)],
           ret |-> [NoReturn EXCEPT !.id = id, !.deleted = TRUE]]

EmptyString == -2

\* args.content !== undefined ? args.content : existing.content
newContent(a, existing) == IF a.content.isNull THEN existing.content ELSE a.content.v

newTags_replace(a, existing) == IF a.tags.isNull THEN None ELSE Some(Stringify(a.tags.v))

\* args.tags !== undefined ? JSON.stringify(args.tags) : existing.tags
newTags(a, existing) == IF a.tags.isNull THEN existing.tags ELSE Some(Stringify(a.tags.v))

\* args.expires_at !== undefined ? (args.expires_at === "" ? null : args.expires_at) : existing.expires_at
newExpiresAt(a, existing) ==
  IF a.expires_at = NULL THEN existing.expires_at
  ELSE IF a.expires_at = EmptyString THEN NULL
  ELSE a.expires_at

updateFtsStmt_stale(fts, rowid, content, tags) == fts

\* UPDATE memory_fts SET content = ?, tags = ? WHERE rowid = (SELECT rowid ...)
updateFtsStmt(fts, rowid, content, tags) ==
  {IF f.rowid = rowid THEN [f EXCEPT !.content = content, !.tags = tags] ELSE f : f \in fts}

memoryUpdate(S, a, t) ==
  LET found == getByIdStmt(S.memory, a.id, a.project_id)
      given == [content |-> a.content, tags |-> a.tags, expires_at |-> a.expires_at]
  IN IF found = {}
     THEN [S |-> S, ret |-> [NoReturn EXCEPT !.ok = FALSE, !.id = a.id, !.args = given,
                                             !.error = [code |-> -32602,
                                                        message |-> "Memory entry not found"]]]
     ELSE LET existing == CHOOSE r \in found : TRUE
              row == [existing EXCEPT !.content = newContent(a, existing),
                                      !.tags = newTags(a, existing),
                                      !.updated_at = t,
                                      !.expires_at = newExpiresAt(a, existing)]
          IN [S |-> [S EXCEPT !.memory = (S.memory \ {existing}) \cup {row},
                              !.memory_fts = updateFtsStmt(S.memory_fts, existing.rowid,
                                                           row.content, TagsText(row)),
                              !.queryCache = clearQueryCache(S.queryCache)],
              ret |-> [NoReturn EXCEPT !.id = a.id, !.rows = <<formatRow(row)>>, !.args = given]]

\* ------------------------------------------------ the memory tools in use
Projects == {"A", "B"}
Past == toISOString(T0 - 1000)
Soon == toISOString(T0 + 45000)
TickSteps == {30000}

StoreShapes ==
  { [scope |-> Undefined, content |-> <<"a">>, tags |-> Some(<< <<"t">> >>), expires_at |-> Past],
    [scope |-> "s1", content |-> <<"a", " ", "b">>, tags |-> Some(<< <<"t">> >>), expires_at |-> Soon] }

SearchShapes ==
  { [scope |-> Undefined, query |-> <<>>, tag |-> None, limit |-> NULL, use_fts |-> FALSE],
    [scope |-> Undefined, query |-> <<"a">>, tag |-> None, limit |-> 1, use_fts |-> FALSE],
    [scope |-> Undefined, query |-> <<" ">>, tag |-> Some(<<"t">>), limit |-> NULL, use_fts |-> FALSE],
    [scope |-> "default", query |-> <<>>, tag |-> Some(<<"t">>), limit |-> NULL, use_fts |-> FALSE],
    [scope |-> "s1", query |-> <<"b">>, tag |-> Some(<<"t">>), limit |-> NULL, use_fts |-> TRUE] }

ListShapes ==
  { [scope |-> Undefined, limit |-> NULL, offset |-> NULL],
    [scope |-> "s1", limit |-> 1, offset |-> 0] }

UpdateShapes ==
  { [content |-> Some(<<"b">>), tags |-> Some(<< <<"u">> >>), expires_at |-> EmptyString] }

WithProject(shape, p) == [x \in DOMAIN shape \cup {"project_id"} |->
                            IF x = "project_id" THEN p ELSE shape[x]]

WithId(shape, id) == [x \in DOMAIN shape \cup {"id"} |-> IF x = "id" THEN id ELSE shape[x]]

Store == [memory |-> memory, memory_fts |-> memory_fts, queryCache |-> queryCache,
          lastPurge |-> lastPurge, nextId |-> nextId]

Commit(R, op, project_id) ==
  /\ memory' = R.S.memory
  /\ memory_fts' = R.S.memory_fts
  /\ queryCache' = R.S.queryCache
  /\ lastPurge' = R.S.lastPurge
  /\ nextId' = R.S.nextId
  /\ lastMem' = [op |-> op, project_id |-> project_id, ret |-> R.ret]

NoCall == [op |-> "none", project_id |-> "", ret |-> NoReturn]

NoPager == [phase |-> "fill", project_id |-> "", P |-> 0, offset |-> 0, ids |-> <<>>,
            more |-> <<>>, expected |-> {}]

MemInit ==
  /\ now = T0
  /\ ticks = 0
  /\ memory = {}
  /\ memory_fts = {}
  /\ queryCache = <<>>
  /\ lastPurge = [p \in Projects |-> 0]
  /\ nextId = 0
  /\ lastMem = NoCall
  /\ pager = NoPager

MemoryStore(p, shape) ==
  /\ nextId < MaxEntries
  /\ Commit(memoryStore(Store, WithProject(shape, p), now), "memory.store", p)
  /\ UNCHANGED <<now, ticks>>
  /\ UNCHANGED <<kbVars, srvVars, frVars, utilVars, pager>>

MemorySearch(p, shape) ==
  LET R == memorySearch(Store, WithProject(shape, p), now)
  IN /\ Len(R.S.queryCache) <= MaxCached
     /\ Commit(R, "memory.search", p)
     /\ UNCHANGED <<now, ticks>>
     /\ UNCHANGED <<kbVars, srvVars, frVars, utilVars, pager>>

MemoryList(p, shape) ==
  /\ Commit(memoryList(Store, WithProject(shape, p), now), "memory.list", p)
  /\ UNCHANGED <<now, ticks>>
  /\ UNCHANGED <<kbVars, srvVars, frVars, utilVars, pager>>

MemoryDelete(p, id) ==
  /\ Commit(memoryDelete(Store, id, p, now), "memory.delete", p)
  /\ UNCHANGED <<now, ticks>>
  /\ UNCHANGED <<kbVars, srvVars, frVars, utilVars, pager>>

MemoryUpdate(p, id, shape) ==
  /\ Commit(memoryUpdate(Store, WithId(WithProject(shape, p), id), now), "memory.update", p)
  /\ UNCHANGED <<now, ticks>>
  /\ UNCHANGED <<kbVars, srvVars, frVars, utilVars, pager>>

Tick(d) ==
  /\ ticks < MaxTicks
  /\ now' = now + d
  /\ ticks' = ticks + 1
  /\ lastMem' = NoCall
  /\ UNCHANGED <<memory, memory_fts, queryCache, lastPurge, nextId>>
  /\ UNCHANGED <<kbVars, srvVars, frVars, utilVars, pager>>

\* ------------------------------------------- entries that are changed
\* memory.update arguments: tags only, content only, the empty expires_at,
\* and an expires_at one second in the past written with the offset +05:00
EntryUpdateShapes ==
  { [content |-> None, tags |-> Some(<< <<"u">> >>), expires_at |-> NULL],
    [content |-> Some(<<"b">>), tags |-> None, expires_at |-> NULL],
    [content |-> None, tags |-> None, expires_at |-> EmptyString],
    [content |-> None, tags |-> None, expires_at |-> WithOffset(T0 - 1000)] }

EntrySearchShapes ==
  { [scope |-> Undefined, query |-> <<>>, tag |-> None, limit |-> NULL, use_fts |-> FALSE] }

EntryListShapes == { [scope |-> Undefined, limit |-> NULL, offset |-> NULL] }

EntryStoreShapes ==
  { [scope |-> "s1", content |-> <<"a", " ", "b">>, tags |-> Some(<< <<"t">> >>), expires_at |-> Soon] }

EntriesNext ==
  \/ \E p \in Projects, shape \in EntryStoreShapes : MemoryStore(p, shape)
  \/ \E shape \in EntrySearchShapes : MemorySearch("A", shape)
  \/ \E p \in Projects, shape \in EntryListShapes : MemoryList(p, shape)
  \/ \E p \in Projects, id \in 1..nextId, shape \in EntryUpdateShapes : MemoryUpdate(p, id, shape)

\* --------------------------------------------- entries that are searched
\* memory.store arguments: the scope omitted and the scope "s1", no expiry
LatestStoreShapes ==
  { [scope |-> Undefined, content |-> <<"a">>, tags |-> Some(<< <<"t">> >>), expires_at |-> NULL],
    [scope |-> "s1", content |-> <<"a">>, tags |-> Some(<< <<"t">> >>), expires_at |-> NULL] }

\* memory.search arguments: an empty or blank query without a tag, with the
\* limit absent, not positive, 1 and above the cap; and a tag alone, with
\* the scope omitted and with the scope "default"
LatestSearchShapes ==
  { [scope |-> sc, query |-> q, tag |-> None, limit |-> l, use_fts |-> FALSE] :
      sc \in {Undefined, "s1"}, q \in {<<>>, <<" ">>}, l \in {NULL, 0, 1, 101} }
  \cup { [scope |-> sc, query |-> <<>>, tag |-> Some(<<"t">>), limit |-> NULL,
          use_fts |-> FALSE] : sc \in {Undefined, DEFAULT_SCOPE} }

SearchNext ==
  \/ \E p \in Projects, shape \in LatestStoreShapes : MemoryStore(p, shape)
  \/ \E p \in Projects, shape \in LatestSearchShapes : MemorySearch(p, shape)
  \/ \E d \in TickSteps : Tick(d)

\* ------------------------------------- entries searched by text and tag
\* memory.store arguments: one content, with the tag "t" and with the tag "u"
TaggedStoreShapes ==
  { [scope |-> Undefined, content |-> <<"a">>, tags |-> Some(<< <<tg>> >>), expires_at |-> NULL] :
      tg \in {"t", "u"} }

\* memory.search arguments: the text "a" and the tag "t", limit 1 and absent
TaggedSearchShapes ==
  { [scope |-> Undefined, query |-> <<"a">>, tag |-> Some(<<"t">>), limit |-> l, use_fts |-> FALSE] :
      l \in {1, NULL} }

TaggedNext ==
  \/ \E p \in Projects, shape \in TaggedStoreShapes : MemoryStore(p, shape)
  \/ \E p \in Projects, shape \in TaggedSearchShapes : MemorySearch(p, shape)
  \/ \E d \in TickSteps : Tick(d)

\* ------------------------------------------- entries that are purged
\* Date.now() advances by half a purge interval
Advance(d) ==
  /\ ticks < MaxAdvances
  /\ now' = now + d
  /\ ticks' = ticks + 1
  /\ lastMem' = NoCall
  /\ UNCHANGED <<memory, memory_fts, queryCache, lastPurge, nextId>>
  /\ UNCHANGED <<kbVars, srvVars, frVars, utilVars, pager>>

PurgeNext ==
  \/ \E p \in Projects, shape \in StoreShapes : MemoryStore(p, shape)
  \/ \E p \in Projects, shape \in EntryListShapes : MemoryList(p, shape)
  \/ \E d \in TickSteps : Advance(d)

\* ------------------------------------------------ the query cache in use
\* The reference cache is a set of entries; rank 1 is the least recently
\* used entry and rank Cardinality the most recently used one.
RefHas(R, key) == \E e \in R : e.key = key

RefEntry(R, key) == CHOOSE e \in R : e.key = key

RefRemove(R, key) ==
  {[e EXCEPT !.rank = IF e.rank > RefEntry(R, key).rank THEN e.rank - 1 ELSE e.rank] :
     e \in R \ {RefEntry(R, key)}}

RefPut(R, key, result, expires) ==
  R \cup {[key |-> key, result |-> result, expires |-> expires, rank |-> Cardinality(R) + 1]}

RefGet(R, key, t) ==
  IF ~RefHas(R, key) THEN [cache |-> R, found |-> FALSE, data |-> 0]
  ELSE IF RefEntry(R, key).expires > t
  THEN [cache |-> RefPut(RefRemove(R, key), key, RefEntry(R, key).result, RefEntry(R, key).expires),
        found |-> TRUE, data |-> RefEntry(R, key).result.data]
  ELSE [cache |-> RefRemove(R, key), found |-> FALSE, data |-> 0]

RefSet(R, key, result, expires, capacity) ==
  IF RefHas(R, key) THEN RefPut(RefRemove(R, key), key, result, expires)
  ELSE IF Cardinality(R) >= capacity
  THEN RefPut(RefRemove(R, (CHOOSE e \in R : e.rank = 1).key), key, result, expires)
  ELSE RefPut(R, key, result, expires)

\* the keys of searches that differ in their limit
CacheKey(n) == createQueryKey("A", DEFAULT_SCOPE, <<>>, None, n, FALSE)

NoCacheCall == [op |-> "none", key |-> 0, found |-> FALSE, data |-> 0, refFound |-> FALSE,
                refData |-> 0]

LruInit ==
  /\ reference = {}
  /\ keysUsed = 1
  /\ lastCache = NoCacheCall

\* setCachedQuery(key, result, ttl): of key 1 at any time, of the other keys
\* one after the other
CacheSet(n, data, ttl) ==
  /\ n = 1 \/ (n = keysUsed + 1 /\ keysUsed < MaxKeys)
  /\ queryCache' = setCachedQuery(queryCache, CacheKey(n), [data |-> data], ttl, now)
  /\ reference' = RefSet(reference, CacheKey(n), [data |-> data], now + ttl, CACHE_MAX_SIZE)
  /\ keysUsed' = Max(keysUsed, n)
  /\ lastCache' = [NoCacheCall EXCEPT !.op = "set", !.key = n]
  /\ UNCHANGED <<now, ticks, memory, memory_fts, lastPurge, nextId, lastMem, pager>>
  /\ UNCHANGED <<kbVars, srvVars, frVars, retry>>

\* getCachedQuery(key)
CacheGet(n) ==
  LET g == getCachedQuery(queryCache, CacheKey(n), now)
      r == RefGet(reference, CacheKey(n), now)
  IN /\ queryCache' = g.cache
     /\ reference' = r.cache
     /\ lastCache' = [op |-> "get", key |-> n, found |-> g.found,
                      data |-> IF g.found THEN g.value.result.data ELSE 0,
                      refFound |-> r.found, refData |-> r.data]
     /\ UNCHANGED <<now, ticks, memory, memory_fts, lastPurge, nextId, lastMem, pager, keysUsed>>
     /\ UNCHANGED <<kbVars, srvVars, frVars, retry>>

\* clearQueryCache(); the client starts again with its keys
CacheClear ==
  /\ queryCache' = clearQueryCache(queryCache)
  /\ reference' = {}
  /\ keysUsed' = 1
  /\ lastCache' = [NoCacheCall EXCEPT !.op = "clear"]
  /\ UNCHANGED <<now, ticks, memory, memory_fts, lastPurge, nextId, lastMem, pager>>
  /\ UNCHANGED <<kbVars, srvVars, frVars, retry>>

\* Date.now() advances while the cache is small
CacheTick(d) == Len(queryCache) <= MaxCached /\ Tick(d)

CacheNext ==
  \/ \E data \in {1, 2} : CacheSet(1, data, 30000)
  \/ CacheSet(keysUsed + 1, 1, CACHE_TTL_MS)
  \/ \E n \in {0, 1} : CacheGet(n)
  \/ CacheClear
  \/ \E d \in TickSteps : CacheTick(d)

\* ---------------------------------------------------------------- errors.js
\* What one invocation of the operation does: it returns, or it throws a
\* ValidationError, the error of expectString (an Error with code -32602),
\* a DatabaseError, a NotFoundError, or an Error without code.
Success == [name |-> "success", isOperational |-> FALSE, code |-> 0]

InvocationOutcomes ==
  { Success,
    [name |-> "ValidationError", isOperational |-> TRUE, code |-> -32602],
    [name |-> "expectString", isOperational |-> FALSE, code |-> -32602],
    [name |-> "DatabaseError", isOperational |-> TRUE, code |-> -32000],
    [name |-> "NotFoundError", isOperational |-> TRUE, code |-> -32601],
    [name |-> "Error", isOperational |-> FALSE, code |-> 0] }

\* error.isOperational && error.code === -32602
NotRetried(error) == error.isOperational /\ error.code = -32602

RetryInit ==
  retry = [status |-> "idle", maxRetries |-> 0, attempt |-> 0, delay |-> 0,
           invoked |-> <<>>, result |-> Success]

\* retryOperation(operation, maxRetries)(...args): the loop starts
RetryCall(maxRetries) ==
  /\ retry.status # "running"
  /\ retry' = [status |-> "running", maxRetries |-> maxRetries, attempt |-> 1, delay |-> 1000,
               invoked |-> <<>>, result |-> Success]
  /\ UNCHANGED <<memVars, kbVars, srvVars, frVars, reference, keysUsed, lastCache>>

\* one turn of the loop: await operation(...args), and the catch block
RetryAttempt(outcome) ==
  /\ retry.status = "running"
  /\ retry' =
       IF outcome = Success
       THEN [retry EXCEPT !.status = "returned", !.invoked = Append(@, outcome), !.result = outcome]
       ELSE IF NotRetried(outcome) \/ retry.attempt = retry.maxRetries
       THEN [retry EXCEPT !.status = "thrown", !.invoked = Append(@, outcome), !.result = outcome]
       ELSE [retry EXCEPT !.attempt = @ + 1, !.delay = (@ * 3) \div 2,
                          !.invoked = Append(@, outcome)]
  /\ UNCHANGED <<memVars, kbVars, srvVars, frVars, reference, keysUsed, lastCache>>

RetryNext ==
  \/ \E maxRetries \in 1..MaxRetries : RetryCall(maxRetries)
  \/ \E outcome \in InvocationOutcomes : RetryAttempt(outcome)

\* ------------------------------------------------ a client reading pages
PageSizes == {1, 2, 3, 500, 501}

\* memoryListSchema: limit is an integer from 1 to 500, offset is not negative
memoryListSchema(a) ==
  /\ a.limit = NULL \/ (a.limit >= 1 /\ a.limit <= 500)
  /\ a.offset = NULL \/ a.offset >= 0

RECURSIVE IdsOf(_)
IdsOf(rows) == IF rows = <<>> THEN <<>> ELSE <<Head(rows).id>> \o IdsOf(Tail(rows))

\* memory.store, before the client starts to read
PagerStore(p, shape) ==
  /\ pager.phase = "fill"
  /\ nextId < MaxListed
  /\ Commit(memoryStore(Store, WithProject(shape, p), now), "memory.store", p)
  /\ UNCHANGED <<now, ticks, pager, kbVars, srvVars, frVars, utilVars>>

\* the client picks a project and a page size; expected is the set of the
\* ids of the project's entries that have not expired
PagerStart(p, P) ==
  /\ pager.phase = "fill"
  /\ pager' = [NoPager EXCEPT !.phase = "paging", !.project_id = p, !.P = P,
                              !.expected = {r.id : r \in {e \in memory :
                                  /\ e.project_id = p
                                  /\ e.expires_at = NULL \/ Instant(e.expires_at) > now}}]
  /\ UNCHANGED <<now, ticks, memory, memory_fts, queryCache, lastPurge, nextId, lastMem, kbVars, srvVars, frVars, utilVars>>

\* tools/call memory.list for the next page: validateInput, then the handler
PagerNext ==
  LET a == [project_id |-> pager.project_id, scope |-> Undefined, limit |-> pager.P,
            offset |-> pager.offset]
      R == memoryList(Store, a, now)
  IN /\ pager.phase = "paging"
     /\ IF ~memoryListSchema(a)
        THEN /\ pager' = [pager EXCEPT !.phase = "rejected"]
             /\ UNCHANGED <<memory, memory_fts, queryCache, lastPurge, nextId, lastMem>>
        ELSE /\ Commit(R, "memory.list", a.project_id)
             /\ pager' = [pager EXCEPT !.ids = @ \o IdsOf(R.ret.rows),
                                       !.more = Append(@, R.ret.has_more),
                                       !.offset = @ + pager.P,
                                       !.phase = IF R.ret.has_more THEN "paging" ELSE "done"]
     /\ UNCHANGED <<now, ticks, kbVars, srvVars, frVars, utilVars>>

PagesNext ==
  \/ \E p \in Projects, shape \in StoreShapes : PagerStore(p, shape)
  \/ \E p \in Projects, P \in PageSizes : PagerStart(p, P)
  \/ PagerNext

MemNext ==
  \/ \E p \in Projects, shape \in StoreShapes : MemoryStore(p, shape)
  \/ \E p \in Projects, shape \in SearchShapes : MemorySearch(p, shape)
  \/ \E p \in Projects, shape \in ListShapes : MemoryList(p, shape)
  \/ \E p \in Projects, id \in 1..nextId : MemoryDelete(p, id)
  \/ \E p \in Projects, id \in 1..nextId, shape \in UpdateShapes : MemoryUpdate(p, id, shape)
  \/ \E d \in TickSteps : Tick(d)


\* ------------------------------------------------------------------ kb.js
\* A document is known by doc, the number of the kb.add call that brought it;
\* id is its rowid.  The handlers are functions of K = [kb_fts, kb_meta,
\* qdrant, kbOps, addCount, vecDocs].

\* the ways a fetch to the vector index ends, as qdrantRequest tells them apart
Outcomes == {"ok", "http404", "http500", "network", "timeout"}

\* the error qdrantRequest throws
qdrantError(outcome) ==
  CASE outcome = "http404" -> "Qdrant error (404)"
    [] outcome = "http500" -> "Qdrant error (500)"
    [] outcome = "timeout" -> "Qdrant request timed out"
    [] outcome = "network" -> "fetch failed"
    [] OTHER -> "none"

\* What the index does with a request.  A request that ends in an error
\* response was refused; one that ends in a network failure or in the 5 s
\* abort may or may not have been carried out (applied).
ServerAnswers(q, pc, outcome, applied) ==
  CASE pc = "check" -> /\ outcome = "ok" => q.collection
                       /\ outcome = "http404" => ~q.collection
                       /\ ~applied
    [] pc = "create" -> /\ outcome = "ok" => ~q.collection /\ applied
                        /\ outcome = "http404" => FALSE
                        /\ outcome = "http500" => ~applied
                        /\ applied => ~q.collection
    [] pc = "upsert" -> /\ outcome = "ok" => q.collection /\ applied
                        /\ outcome = "http404" => ~q.collection /\ ~applied
                        /\ outcome = "http500" => ~applied
                        /\ applied => q.collection

ServerApplies(q, op, applied) ==
  IF ~applied THEN q
  ELSE IF op.pc = "create" THEN [q EXCEPT !.collection = TRUE]
  ELSE [q EXCEPT !.points = {pt \in q.points : pt.id # op.id}
                               \cup {[id |-> op.id, title |-> op.title, doc |-> op.doc,
                                      owner |-> op.project_id]}]

insertTx(K, title, content, source, project_id, doc) ==
  LET id == NextRowid({[rowid |-> r.id] : r \in K.kb_fts})
  IN [K EXCEPT !.kb_fts = K.kb_fts \cup {[id |-> id, title |-> title, content |-> content,
                                           source |-> source, doc |-> doc, owner |-> project_id]},
               !.kb_meta = IF project_id # Undefined /\ project_id # ""
                           THEN {m \in K.kb_meta : m.rowid # id}
                                  \cup {[rowid |-> id, project_id |-> project_id]}
                           ELSE K.kb_meta]

rollbackTx_ftsOnly(K, id) ==
  [K EXCEPT !.kb_fts = {r \in K.kb_fts : r.id # id}]

rollbackTx(K, id) ==
  [K EXCEPT !.kb_meta = {m \in K.kb_meta : m.rowid # id},
            !.kb_fts = {r \in K.kb_fts : r.id # id}]

NoKbReturn == [status |-> "none", id |-> 0, doc |-> 0, title |-> "", error |-> "none",
               project_id |-> Undefined, mode |-> "none", rows |-> <<>>]

\* kb.add up to its first suspension
kbAdd(K, a) ==
  LET doc == K.addCount + 1
      I == insertTx(K, a.title, a.content, a.source, a.project_id, doc)
      id == NextRowid({[rowid |-> r.id] : r \in K.kb_fts}) 
      J == [I EXCEPT !.addCount = doc]
  IN IF ~a.vector
     THEN [K |-> J, ret |-> [NoKbReturn EXCEPT !.status = "ok", !.id = id, !.doc = doc, !.title = a.title]]
     ELSE [K |-> [J EXCEPT !.vecDocs = J.vecDocs \cup {doc},
                           !.kbOps = J.kbOps \cup {[doc |-> doc, id |-> id, title |-> a.title,
                                                    project_id |-> a.project_id, pc |-> "check"]}],
           ret |-> [NoKbReturn EXCEPT !.status = "pending", !.id = id, !.doc = doc, !.title = a.title]]

\* kb.add from the answer to its pending request to its next suspension or
\* its end: ensureQdrantCollection (check, create), then the upsert
kbAddResume(K, op, outcome, applied) ==
  LET Q == [K EXCEPT !.qdrant = ServerApplies(K.qdrant, op, applied)]
      rest == Q.kbOps \ {op}
      next == IF op.pc = "check" /\ outcome = "ok" THEN "upsert"
              ELSE IF op.pc = "check" /\ outcome = "http404" THEN "create"
              ELSE IF op.pc = "create" /\ outcome = "ok" THEN "upsert"
              ELSE IF op.pc = "upsert" /\ outcome = "ok" THEN "done"
              ELSE "throw"
      ret == [NoKbReturn EXCEPT !.id = op.id, !.doc = op.doc, !.title = op.title]
  IN IF next = "throw"
     THEN [K |-> [rollbackTx(Q, op.id) EXCEPT !.kbOps = rest],
           ret |-> [ret EXCEPT !.status = "failed", !.error = qdrantError(outcome)]]
     ELSE IF next = "done"
     THEN [K |-> [Q EXCEPT !.kbOps = rest], ret |-> [ret EXCEPT !.status = "ok"]]
     ELSE [K |-> [Q EXCEPT !.kbOps = rest \cup {[op EXCEPT !.pc = next]}],
           ret |-> [ret EXCEPT !.status = "pending"]]

\* ORDER BY rowid DESC; bm25 is modelled alike, the rows the model holds
\* being of equal rank
RECURSIVE OrderByRowidDesc(_)
OrderByRowidDesc(rows) ==
  IF rows = {} THEN <<>>
  ELSE LET top == CHOOSE r \in rows : \A o \in rows : o.id <= r.id
       IN <<top>> \o OrderByRowidDesc(rows \ {top})

\* kb_fts MATCH of a one-word phrase, on the one-word columns the model uses
KbMatch(r, phrase) == phrase \in {r.title, r.content, r.source}

searchStmt(K, phrase, limit) ==
  Take(OrderByRowidDesc({r \in K.kb_fts : KbMatch(r, phrase)}), limit)

searchScopedStmt(K, phrase, project_id, limit) ==
  Take(OrderByRowidDesc({r \in K.kb_fts :
         KbMatch(r, phrase) /\ \E m \in K.kb_meta : m.rowid = r.id /\ m.project_id = project_id}), limit)

allStmt(K, limit) == Take(OrderByRowidDesc(K.kb_fts), limit)

allScopedStmt(K, project_id, limit) ==
  Take(OrderByRowidDesc({r \in K.kb_fts :
         \E m \in K.kb_meta : m.rowid = r.id /\ m.project_id = project_id}), limit)

\* the points the index returns for a search: the limit nearest ones
SearchHits(q, limit) ==
  {h \in SUBSET q.points : Cardinality(h) = Min(limit, Cardinality(q.points))}

KbResultRow(r) == [id |-> r.id, title |-> r.title, doc |-> r.doc, owner |-> r.owner]

RECURSIVE KbMapRows(_)
KbMapRows(rows) == IF rows = <<>> THEN <<>> ELSE <<KbResultRow(Head(rows))>> \o KbMapRows(Tail(rows))

\* kb.search; in vector mode outcome is how the search request ended and
\* hits the points it returned.  The handler writes nothing.
kbSearch(K, a, outcome, hits) ==
  LET limit == asLimit(a.limit, DEFAULT_LIMIT)
      scoped == a.project_id # Undefined /\ a.project_id # ""
      ret == [NoKbReturn EXCEPT !.project_id = a.project_id]
      rows == IF a.query = ""
              THEN IF scoped THEN allScopedStmt(K, a.project_id, limit) ELSE allStmt(K, limit)
              ELSE IF scoped THEN searchScopedStmt(K, a.query, a.project_id, limit)
              ELSE searchStmt(K, a.query, limit)
  IN IF a.vector
     THEN IF outcome = "ok"
          THEN [K |-> K, ret |-> [ret EXCEPT !.status = "ok", !.mode = "vector",
                                             !.rows = KbMapRows(OrderByRowidDesc(hits))]]
          ELSE [K |-> K, ret |-> [ret EXCEPT !.status = "failed", !.mode = "vector",
                                             !.error = qdrantError(outcome)]]
     ELSE [K |-> K, ret |-> [ret EXCEPT !.status = "ok", !.mode = IF a.query = "" THEN "all" ELSE "text",
                                        !.rows = KbMapRows(rows)]]

\* --------------------------------------------------- the kb tools in use
AddArgs ==
  { [title |-> "T1", content |-> "C", source |-> Undefined, project_id |-> "A", vector |-> TRUE],
    [title |-> "T1", content |-> "C", source |-> Undefined, project_id |-> Undefined, vector |-> TRUE],
    [title |-> "T2", content |-> "C", source |-> "S", project_id |-> "A", vector |-> FALSE],
    [title |-> "T1", content |-> "C", source |-> "S", project_id |-> "B", vector |-> TRUE] }

KbSearchArgs ==
  { [query |-> "", project_id |-> "A", vector |-> FALSE, limit |-> NULL],
    [query |-> "T1", project_id |-> "B", vector |-> FALSE, limit |-> 1],
    [query |-> "T1", project_id |-> "A", vector |-> TRUE, limit |-> 1] }

Kb == [kb_fts |-> kb_fts, kb_meta |-> kb_meta, qdrant |-> qdrant, kbOps |-> kbOps,
       addCount |-> addCount, vecDocs |-> vecDocs]

KbCommit(R, op) ==
  /\ kb_fts' = R.K.kb_fts
  /\ kb_meta' = R.K.kb_meta
  /\ qdrant' = R.K.qdrant
  /\ kbOps' = R.K.kbOps
  /\ addCount' = R.K.addCount
  /\ vecDocs' = R.K.vecDocs
  /\ lastKb' = [op |-> op, ret |-> R.ret]

KbInit ==
  /\ kb_fts = {}
  /\ kb_meta = {}
  /\ qdrant = [collection |-> FALSE, points |-> {}]
  /\ kbOps = {}
  /\ addCount = 0
  /\ vecDocs = {}
  /\ lastKb = [op |-> "none", ret |-> NoKbReturn]

KbAdd(a) ==
  /\ addCount < MaxAdds
  /\ KbCommit(kbAdd(Kb, a), "kb.add")
  /\ UNCHANGED <<memVars, srvVars, frVars, utilVars>>

KbAddResume(op, outcome, applied) ==
  /\ op \in kbOps
  /\ ServerAnswers(qdrant, op.pc, outcome, applied)
  /\ KbCommit(kbAddResume(Kb, op, outcome, applied), "kb.add")
  /\ UNCHANGED <<memVars, srvVars, frVars, utilVars>>

\* kb.search, from the call to its return; a search of the external index
\* is answered from the points the index holds when it answers
KbSearch(a, outcome, hits) ==
  /\ IF a.vector
     THEN /\ outcome = "ok" => qdrant.collection
          /\ outcome = "http404" => ~qdrant.collection
          /\ hits \in SearchHits(qdrant, asLimit(a.limit, DEFAULT_LIMIT))
     ELSE outcome = "ok" /\ hits = {}
  /\ KbCommit(kbSearch(Kb, a, outcome, hits), "kb.search")
  /\ UNCHANGED <<memVars, srvVars, frVars, utilVars>>

KbNext ==
  \/ \E a \in KbSearchArgs, outcome \in {"ok", "http404", "timeout"} :
       \E hits \in SearchHits(qdrant, asLimit(a.limit, DEFAULT_LIMIT)) \cup {{}} : KbSearch(a, outcome, hits)
  \/ \E a \in AddArgs : KbAdd(a)
  \/ \E op \in kbOps, outcome \in Outcomes, applied \in BOOLEAN : KbAddResume(op, outcome, applied)

\* ------------------------------------- both stores and the query cache
\* memory.store and memory.search of one project, and kb.add of a document
\* of that project, with and without a vector
BothAddArgs == {a \in AddArgs : a.project_id = "A"}

BothNext ==
  \/ \E shape \in EntryStoreShapes : MemoryStore("A", shape)
  \/ \E shape \in EntrySearchShapes : MemorySearch("A", shape)
  \/ \E a \in BothAddArgs : KbAdd(a)
  \/ \E op \in kbOps, outcome \in Outcomes, applied \in BOOLEAN : KbAddResume(op, outcome, applied)

\* ---------------------------------------------------------------- server.js
\* A message is [id, valid, method, version, name, args]: id is NoId when the
\* message has no string or number id; valid says it is an object with
\* jsonrpc "2.0" and a string method.
NoId == 0
SUPPORTED_PROTOCOL_VERSIONS == <<"2025-06-18", "2025-03-26", "2024-11-05">>
Registry == {"memory.store", "memory.update", "kb.add"}

NoResponse == [id |-> NoId, kind |-> "none", code |-> 0, body |-> ""]

jsonRpcError(id, code, message) == [id |-> id, kind |-> "error", code |-> code, body |-> message]

jsonRpcResult(id, result) == [id |-> id, kind |-> "result", code |-> 0, body |-> result]

maybeExit_endOnly(ended, n) == ended

\* maybeExit: process.exit(0) is called
maybeExit(ended, n) == ended /\ n = 0

Exited == exited # "no"

\* the process ended through maybeExit, the end-of-input path
ExitedOnEnd == exited \in {"end", "finally"}

NotInitialized_callsPass(init, method) == ~init /\ method \notin {"ping", "tools/call"}

\* the guard of the 'Server not initialized' answer
NotInitialized(init, method) == ~init /\ method # "ping"

InitializeResets_keep(init) == init

\* initialized = false on an accepted initialize
InitializeResets(init) == FALSE

\* a value that is present and is not a string
NotAString == "<number>"

\* typeof value === "string"
IsString(value) == value \notin {Undefined, NotAString}

Negotiated_echo(requested) == requested

Negotiated(requested) ==
  IF \E i \in 1..Len(SUPPORTED_PROTOCOL_VERSIONS) : SUPPORTED_PROTOCOL_VERSIONS[i] = requested
  THEN requested ELSE SUPPORTED_PROTOCOL_VERSIONS[1]

validateInput_lenient(name, args) == TRUE

\* validateInput, for the argument objects the model sends
validateInput(name, args) == args # "invalid"

\* handleRequest up to the call of a tool handler: the response (NoResponse
\* for none), the new value of initialized, and the tool to run, if any
hasId_always(msg) == TRUE

\* typeof id === "string" || typeof id === "number"
hasId(msg) == msg.id # NoId

\* an error object: the request it was thrown for, its code and message,
\* and whether it is an AppError (isOperational)
NoError == [id |-> NoId, code |-> 0, message |-> "", isOperational |-> FALSE]

Thrown(id, code, message, isOperational) ==
  [id |-> id, code |-> code, message |-> message, isOperational |-> isOperational]

\* handleError: the code and message the caller gets
handleError(isOperational, code, message) ==
  IF isOperational THEN [code |-> code, message |-> message]
  ELSE [code |-> -32000, message |-> "Internal server error"]

\* the catch block of handleRequest
Caught(err) ==
  jsonRpcError(err.id, handleError(err.isOperational, err.code, err.message).code,
               handleError(err.isOperational, err.code, err.message).message)

Notified_anyMethod(init, method) == TRUE

\* if (msg.method === "notifications/initialized") initialized = true
Notified(init, method) == IF method = "notifications/initialized" THEN TRUE ELSE init

\* handleRequest up to the call of a tool handler: the response (NoResponse
\* for none), the new value of initialized, the tool to run, if any, the
\* number of calls of validateInput, and the error thrown, if any
handleRequest(msg, init) ==
  LET H == [resp |-> NoResponse, init |-> init, call |-> "none", validated |-> 0, thrown |-> NoError]
  IN IF ~msg.valid THEN H
     ELSE IF ~hasId(msg)
          THEN [H EXCEPT !.init = Notified(init, msg.method)]
     ELSE IF msg.method = "initialize"
          THEN IF ~IsString(msg.version) \/ msg.version = ""
               THEN [H EXCEPT !.resp = jsonRpcError(msg.id, -32602, "protocolVersion must be a string")]
               ELSE [H EXCEPT !.init = InitializeResets(init),
                              !.resp = jsonRpcResult(msg.id, Negotiated(msg.version))]
     ELSE IF NotInitialized(init, msg.method)
          THEN [H EXCEPT !.resp = jsonRpcError(msg.id, -32002, "Server not initialized")]
     ELSE IF msg.method = "ping" THEN [H EXCEPT !.resp = jsonRpcResult(msg.id, "{}")]
     ELSE IF msg.method = "tools/list" THEN [H EXCEPT !.resp = jsonRpcResult(msg.id, "tools")]
     ELSE IF msg.method = "tools/call"
          THEN IF msg.name = Undefined \/ msg.name = ""
               THEN [H EXCEPT !.resp = jsonRpcError(msg.id, -32602, "name must be a string")]
               ELSE IF msg.name \notin Registry
               THEN [H EXCEPT !.resp = jsonRpcError(msg.id, -32601, "Tool not found")]
               ELSE IF ~validateInput(msg.name, msg.args)
               THEN LET err == Thrown(msg.id, -32602, "Validation failed", TRUE)
                    IN [H EXCEPT !.validated = 1, !.thrown = err, !.resp = Caught(err)]
               ELSE [H EXCEPT !.validated = 1, !.call = msg.name]
     ELSE [H EXCEPT !.resp = jsonRpcError(msg.id, -32601, "Method not found")]

\* ------------------------------------------------------ the server in use
Msg(method) == [id |-> NoId, valid |-> TRUE, method |-> method, version |-> Undefined,
                name |-> Undefined, args |-> "valid"]

Messages ==
  { [Msg("initialize") EXCEPT !.id = 1, !.version = "2025-03-26"],
    Msg("notifications/initialized"),
    [Msg("ping") EXCEPT !.id = 1],
    [Msg("tools/list") EXCEPT !.id = 1],
    [Msg("tools/call") EXCEPT !.id = 1, !.name = "memory.store"],
    [Msg("tools/call") EXCEPT !.id = 1, !.name = "kb.add"],
    [Msg("tools/list") EXCEPT !.id = 1, !.valid = FALSE] }

\* the argument objects of the two tools/call messages
StoreCallArgs == [project_id |-> "A", scope |-> Undefined, content |-> <<"a">>, tags |-> None,
                  expires_at |-> NULL]

UpdateCallArgs == [project_id |-> "A", id |-> 1, content |-> Some(<<"b">>), tags |-> None,
                   expires_at |-> NULL]

AddCallArgs == [title |-> "T1", content |-> "C", source |-> Undefined, project_id |-> "A",
                vector |-> TRUE]

\* the messages of a client that calls tools
CallMessages ==
  { Msg("notifications/initialized"),
    [Msg("tools/call") EXCEPT !.id = 1, !.name = "memory.store"],
    [Msg("tools/call") EXCEPT !.id = 1, !.name = "memory.store", !.args = "invalid"],
    [Msg("tools/call") EXCEPT !.id = 1, !.name = "memory.update"],
    [Msg("tools/call") EXCEPT !.id = 1, !.name = "kb.add"],
    [Msg("tools/call") EXCEPT !.id = 1, !.name = "nope"],
    Msg("tools/call"),
    [Msg("initialize") EXCEPT !.version = "2025-03-26"],
    Msg("resources/list"),
    [Msg("resources/list") EXCEPT !.id = 1] }

CallBatches == UNION {[1..n -> CallMessages] : n \in 1..MaxBatch}

\* the messages decoded from one chunk
Batches == UNION {[1..n -> Messages] : n \in 1..MaxBatch}

\* the requests of chunk c get the ids 10c + 1, 10c + 2, ...
Numbered(batch, c) ==
  [i \in 1..Len(batch) |-> IF batch[i].id = NoId THEN batch[i] ELSE [batch[i] EXCEPT !.id = 10 * c + i]]

\* a request: a well-formed message that carries an id
Request(m) == m.valid /\ hasId(m)

Range(seq) == {seq[i] : i \in 1..Len(seq)}

Written_resultsOnly(resp) == IF resp.kind # "result" THEN out ELSE Append(out, resp)

\* if (response) writeJson(response, framing)
Written(resp) == IF resp.kind = "none" THEN out ELSE Append(out, resp)

SrvInit ==
  /\ initialized = FALSE
  /\ stdinEnded = FALSE
  /\ inFlight = 0
  /\ exited = "no"
  /\ chunks = 0
  /\ tasks = <<>>
  /\ running = 0
  /\ decoded = {}
  /\ out = <<>>
  /\ initAccepted = FALSE
  /\ initPending = FALSE
  /\ lastSrv = [n |-> 0, msg |-> Msg("none"), readyBefore |-> FALSE, pendingBefore |-> FALSE,
                resp |-> NoResponse, ranHandler |-> FALSE, validated |-> 0]
  /\ lastErr = NoError

\* A decoded value is [isArray, v]: v is one message, or, for a JSON array,
\* the sequence of its elements.  A chunk is given by its messages in the
\* order they are parsed and by its grouping: 0 stands for a value that is
\* one message, n > 0 for a value that is an array of n messages.
RECURSIVE Group(_, _)
Group(msgs, grouping) ==
  IF grouping = <<>> THEN <<>>
  ELSE LET n == IF Head(grouping) = 0 THEN 1 ELSE Head(grouping)
       IN << [isArray |-> Head(grouping) # 0,
              v |-> IF Head(grouping) = 0 THEN msgs[1] ELSE SubSeq(msgs, 1, n)] >>
          \o Group(SubSeq(msgs, n + 1, Len(msgs)), Tail(grouping))

Groupings(n) == {[i \in 1..n |-> 0], <<n>>}

normalizeToArray_reversed(maybeBatch) ==
  IF maybeBatch.isArray
  THEN [i \in 1..Len(maybeBatch.v) |-> maybeBatch.v[Len(maybeBatch.v) + 1 - i]]
  ELSE <<maybeBatch.v>>

\* Array.isArray(maybeBatch) ? maybeBatch : [maybeBatch]
normalizeToArray(maybeBatch) == IF maybeBatch.isArray THEN maybeBatch.v ELSE <<maybeBatch.v>>

\* for (const m of messages) for (const msg of normalizeToArray(m))
RECURSIVE Loop(_)
Loop(messages) ==
  IF messages = <<>> THEN <<>> ELSE normalizeToArray(Head(messages)) \o Loop(Tail(messages))

\* process.stdin.on("data"): the callback starts on the messages of the chunk
OnData(batch, grouping) ==
  /\ ~Exited /\ ~stdinEnded /\ running = 0
  /\ chunks < MaxChunks
  /\ chunks' = chunks + 1
  /\ tasks' = Append(tasks, [msgs |-> Loop(Group(Numbered(batch, chunks + 1), grouping)),
                             awaiting |-> 0])
  /\ running' = chunks + 1
  /\ decoded' = decoded \cup {m.id : m \in {r \in Range(Numbered(batch, chunks + 1)) : Request(r)}}
  /\ UNCHANGED <<initialized, stdinEnded, inFlight, exited, out, initAccepted, initPending, lastSrv,
                 lastErr>>
  /\ UNCHANGED <<memVars, kbVars, frVars, utilVars>>

\* the message is finished: its response is written, the counter is
\* decremented to n, maybeExit runs, and the loop goes on to the next message
Finish(t, resp, n) ==
  /\ out' = Written(resp)
  /\ inFlight' = n
  /\ exited' = IF maybeExit(stdinEnded, n) THEN "finally" ELSE "no"
  /\ tasks' = [tasks EXCEPT ![t] = [msgs |-> Tail(tasks[t].msgs), awaiting |-> 0]]
  /\ running' = IF maybeExit(stdinEnded, n) \/ Tail(tasks[t].msgs) = <<>> THEN 0 ELSE t

\* what handleRequest met when it took the message, and what it answered
\* before any await of a tool handler
Entered(msg, resp, ran, validated) ==
  lastSrv' = [n |-> lastSrv.n + 1, msg |-> msg, readyBefore |-> initialized,
              pendingBefore |-> initPending, resp |-> resp, ranHandler |-> ran,
              validated |-> validated]

\* one turn of the loop of the 'data' callback, up to the end of the message
\* or to the first await of its tool handler
Step(t) ==
  LET msg == Head(tasks[t].msgs)
      H == handleRequest(msg, initialized)
      accepted == msg.valid /\ msg.id # NoId /\ msg.method = "initialize" /\ H.resp.kind = "result"
      notified == msg.valid /\ msg.id = NoId /\ msg.method = "notifications/initialized"
  IN /\ ~Exited /\ running = t
     /\ initialized' = H.init
     /\ initAccepted' = (initAccepted \/ accepted)
     /\ initPending' = IF accepted THEN TRUE ELSE IF notified THEN FALSE ELSE initPending
     /\ UNCHANGED <<stdinEnded, chunks, decoded, frVars, utilVars>>
     /\ CASE H.call = "none" ->
               /\ Finish(t, H.resp, (inFlight + 1) - 1)
               /\ Entered(msg, H.resp, FALSE, H.validated)
               /\ lastErr' = IF H.thrown = NoError THEN lastErr ELSE H.thrown
               /\ UNCHANGED <<memVars, kbVars>>
          [] H.call = "memory.store" ->
               LET R == memoryStore(Store, StoreCallArgs, now)
               IN /\ Commit(R, "memory.store", StoreCallArgs.project_id)
                  /\ Finish(t, jsonRpcResult(msg.id, "stored"), (inFlight + 1) - 1)
                  /\ Entered(msg, jsonRpcResult(msg.id, "stored"), TRUE, H.validated)
                  /\ UNCHANGED <<now, ticks, pager, kbVars, lastErr>>
          [] H.call = "memory.update" ->
               LET R == memoryUpdate(Store, UpdateCallArgs, now)
                   err == Thrown(msg.id, R.ret.error.code, R.ret.error.message, FALSE)
                   resp == IF R.ret.ok THEN jsonRpcResult(msg.id, "updated") ELSE Caught(err)
               IN /\ Commit(R, "memory.update", UpdateCallArgs.project_id)
                  /\ Finish(t, resp, (inFlight + 1) - 1)
                  /\ Entered(msg, resp, TRUE, H.validated)
                  /\ lastErr' = IF R.ret.ok THEN lastErr ELSE err
                  /\ UNCHANGED <<now, ticks, pager, kbVars>>
          [] H.call = "kb.add" ->
               LET R == kbAdd(Kb, AddCallArgs)
               IN /\ KbCommit(R, "kb.add")
                  /\ inFlight' = inFlight + 1
                  /\ tasks' = [tasks EXCEPT ![t].awaiting = R.ret.doc]
                  /\ running' = 0
                  /\ Entered(msg, NoResponse, TRUE, H.validated)
                  /\ UNCHANGED <<exited, out, memVars, lastErr>>

\* the answer to the request a tool handler awaits arrives: the handler goes
\* on to its next await or to its end
FetchDone(t, outcome, applied) ==
  /\ ~Exited /\ running = 0
  /\ t \in 1..Len(tasks) /\ tasks[t].awaiting # 0
  /\ LET op == CHOOSE o \in kbOps : o.doc = tasks[t].awaiting
         R == kbAddResume(Kb, op, outcome, applied)
         msg == Head(tasks[t].msgs)
         err == Thrown(msg.id, -32000, R.ret.error, FALSE)
     IN /\ ServerAnswers(qdrant, op.pc, outcome, applied)
        /\ KbCommit(R, "kb.add")
        /\ IF R.ret.status = "pending"
           THEN UNCHANGED <<inFlight, exited, tasks, running, out, lastErr>>
           ELSE /\ Finish(t, IF R.ret.status = "ok" THEN jsonRpcResult(msg.id, "added") ELSE Caught(err),
                          inFlight - 1)
                /\ lastErr' = IF R.ret.status = "ok" THEN lastErr ELSE err
  /\ UNCHANGED <<initialized, stdinEnded, chunks, decoded, initAccepted, initPending, lastSrv, memVars,
                 frVars, utilVars>>

ExitsOnEnd_never(n) == FALSE

\* stdinEnded = true; maybeExit(): the 'end' handler exits the process
ExitsOnEnd(n) == maybeExit(TRUE, n)

\* process.stdin.on("end")
OnEnd ==
  /\ ~Exited /\ ~stdinEnded /\ running = 0
  /\ stdinEnded' = TRUE
  /\ exited' = IF ExitsOnEnd(inFlight) THEN "end" ELSE "no"
  /\ UNCHANGED <<initialized, inFlight, chunks, tasks, running, decoded, out, initAccepted,
                 initPending, lastSrv, lastErr, memVars, kbVars, frVars, utilVars>>

\* process.on("SIGINT") and process.on("SIGTERM"): stopVacuum, metrics.destroy
\* and process.exit(0), whatever inFlight is
OnSignal ==
  /\ ~Exited /\ running = 0
  /\ exited' = "signal"
  /\ UNCHANGED <<initialized, stdinEnded, inFlight, chunks, tasks, running, decoded, out,
                 initAccepted, initPending, lastSrv, lastErr, memVars, kbVars, frVars, utilVars>>

\* the messages of a client that negotiates the protocol version
HandshakeMessages ==
  { [Msg("initialize") EXCEPT !.id = 1, !.version = v] :
      v \in Range(SUPPORTED_PROTOCOL_VERSIONS) \cup {"2099-01-01", "", Undefined, NotAString} }
  \cup { Msg("notifications/initialized"), [Msg("tools/list") EXCEPT !.id = 1] }

HandshakeBatches == UNION {[1..n -> HandshakeMessages] : n \in 1..MaxBatch}

HandshakeNext ==
  \/ \E batch \in HandshakeBatches : \E grouping \in Groupings(Len(batch)) : OnData(batch, grouping)
  \/ \E t \in 1..Len(tasks) : Step(t)
  \/ OnEnd

\* the messages of a client that calls kb.add and then closes its output
LiveMessages ==
  { Msg("notifications/initialized"),
    [Msg("ping") EXCEPT !.id = 1],
    [Msg("tools/call") EXCEPT !.id = 1, !.name = "kb.add"] }

LiveBatches == UNION {[1..n -> LiveMessages] : n \in 1..MaxBatch}

LiveNext ==
  \/ \E batch \in LiveBatches : \E grouping \in Groupings(Len(batch)) : OnData(batch, grouping)
  \/ \E t \in 1..Len(tasks) : Step(t)
  \/ \E t \in 1..Len(tasks), outcome \in Outcomes, applied \in BOOLEAN : FetchDone(t, outcome, applied)
  \/ OnEnd
  \/ OnSignal

CallNext ==
  \/ \E batch \in CallBatches : \E grouping \in Groupings(Len(batch)) : OnData(batch, grouping)
  \/ \E t \in 1..Len(tasks) : Step(t)
  \/ \E t \in 1..Len(tasks), outcome \in Outcomes, applied \in BOOLEAN : FetchDone(t, outcome, applied)
  \/ OnEnd
  \/ OnSignal

SrvNext ==
  \/ \E batch \in Batches : \E grouping \in Groupings(Len(batch)) : OnData(batch, grouping)
  \/ \E t \in 1..Len(tasks) : Step(t)
  \/ \E t \in 1..Len(tasks), outcome \in Outcomes, applied \in BOOLEAN : FetchDone(t, outcome, applied)
  \/ OnEnd
  \/ OnSignal

\* ------------------------------------------------------------- framing
\* Text is a sequence of characters.  The characters of the model are those
\* of the header name, the digits, blank, CR, LF, the braces, the quote,
\* x, X and the colon, and e-acute, which is one UTF-16 code unit and two
\* UTF-8 bytes.
MaxPieces == 2

CONTENT_LENGTH == <<"C", "o", "n", "t", "e", "n", "t", "-", "L", "e", "n", "g", "t", "h", ":">>
CRLF == <<"\r", "\n">>
BlankLine == <<"\r", "\n", "\r", "\n">>
Digits == <<"0", "1", "2", "3", "4", "5", "6", "7", "8", "9">>

\* the /i flag of the header pattern, over the letters of the model
FoldCase(c) == IF c = "C" THEN "c" ELSE IF c = "L" THEN "l" ELSE IF c = "X" THEN "x" ELSE c

IsDigit(c) == \E d \in 1..10 : Digits[d] = c

\* \s of the header pattern and the characters String.prototype.trim removes
IsSpace(c) == c \in {" ", "\t", "\r", "\n"}

RECURSIVE TrimStart(_)
TrimStart(text) == IF text # <<>> /\ IsSpace(Head(text)) THEN TrimStart(Tail(text)) ELSE text

RECURSIVE TrimEnd(_)
TrimEnd(text) ==
  IF text # <<>> /\ IsSpace(text[Len(text)]) THEN TrimEnd(SubSeq(text, 1, Len(text) - 1)) ELSE text

trim(text) == TrimEnd(TrimStart(text))

\* String.prototype.indexOf, counted from 1; 0 when pat does not occur
indexOf(text, pat) ==
  LET at == {i \in 1..(Len(text) - Len(pat) + 1) : SubSeq(text, i, i + Len(pat) - 1) = pat}
  IN IF at = {} THEN 0 ELSE CHOOSE i \in at : \A j \in at : i <= j

\* String.prototype.includes
includes(text, pat) == indexOf(text, pat) # 0

\* String.prototype.split
RECURSIVE split(_, _)
split(text, sep) ==
  LET i == indexOf(text, sep)
  IN IF i = 0 THEN <<text>>
     ELSE <<SubSeq(text, 1, i - 1)>> \o split(SubSeq(text, i + Len(sep), Len(text)), sep)

\* Number(m[1]) of a string of digits
RECURSIVE NumberOf(_)
NumberOf(digits) ==
  IF digits = <<>> THEN 0
  ELSE 10 * NumberOf(SubSeq(digits, 1, Len(digits) - 1))
       + ((CHOOSE d \in 1..10 : Digits[d] = digits[Len(digits)]) - 1)

\* `${len}`
RECURSIVE Decimal(_)
Decimal(n) == IF n < 10 THEN <<Digits[n + 1]>> ELSE Decimal(n \div 10) \o <<Digits[(n % 10) + 1]>>

\* /^content-length:\s*(\d+)\s*$/i.exec(line): the number, NULL without a match
ContentLengthOf(line) ==
  LET n == Len(CONTENT_LENGTH)
      value == trim(SubSeq(line, n + 1, Len(line)))
  IN IF /\ Len(line) > n
        /\ \A i \in 1..n : FoldCase(line[i]) = FoldCase(CONTENT_LENGTH[i])
        /\ value # <<>>
        /\ \A i \in 1..Len(value) : IsDigit(value[i])
     THEN NumberOf(value) ELSE NULL

\* for (const line of lines) { ... if (m) contentLength = Number(m[1]) }
RECURSIVE LastContentLength(_, _)
LastContentLength(lines, contentLength) ==
  IF lines = <<>> THEN contentLength
  ELSE LastContentLength(Tail(lines),
                         IF ContentLengthOf(Head(lines)) # NULL
                         THEN ContentLengthOf(Head(lines)) ELSE contentLength)

\* JSON.parse succeeds: on the texts {}, numbers and strings without escapes,
\* with white space around them
JsonString(text) ==
  /\ Len(text) >= 2 /\ text[1] = "\"" /\ text[Len(text)] = "\""
  /\ \A i \in 2..(Len(text) - 1) : text[i] \notin {"\"", "\\", "\r", "\n", "\t"}

JsonNumber(text) ==
  /\ text # <<>> /\ \A i \in 1..Len(text) : IsDigit(text[i])
  /\ Len(text) = 1 \/ text[1] # "0"

IsJson(text) ==
  \/ trim(text) = <<"{", "}">>
  \/ JsonString(trim(text))
  \/ JsonNumber(trim(text))

\* JSON.parse: the value, written as its text without the white space
JSONparse(text) == trim(text)

\* JSON.stringify of such a value
JSONstringify(value) == value

\* Buffer.byteLength(json, "utf8")
RECURSIVE byteLength(_)
byteLength(text) ==
  IF text = <<>> THEN 0 ELSE (IF Head(text) = "é" THEN 2 ELSE 1) + byteLength(Tail(text))

\* writeJson: the text written to stdout
writeJson(obj, fr) ==
  IF fr = "lsp"
  THEN CONTENT_LENGTH \o <<" ">> \o Decimal(byteLength(JSONstringify(obj))) \o BlankLine
       \o JSONstringify(obj)
  ELSE JSONstringify(obj) \o <<"\n">>

Buffered_chunkOnly(buf, chunk) == chunk

\* state.buffer += chunk
Buffered(buf, chunk) == buf \o chunk

\* the while loop of parseHeaderFramedMessages
RECURSIVE HeaderLoop(_, _)
HeaderLoop(buf, messages) ==
  LET headerEnd == indexOf(buf, BlankLine)
      headerBlock == SubSeq(buf, 1, headerEnd - 1)
      contentLength == LastContentLength(split(headerBlock, CRLF), NULL)
      bodyStart == headerEnd + 4
      body == SubSeq(buf, bodyStart, bodyStart + contentLength - 1)
  IN IF headerEnd = 0 THEN [buffer |-> buf, messages |-> messages]
     ELSE IF contentLength = NULL THEN HeaderLoop(SubSeq(buf, bodyStart, Len(buf)), messages)
     ELSE IF Len(buf) < (bodyStart - 1) + contentLength
          THEN [buffer |-> buf, messages |-> messages]
     ELSE HeaderLoop(SubSeq(buf, bodyStart + contentLength, Len(buf)),
                     IF IsJson(body) THEN Append(messages, JSONparse(body)) ELSE messages)

parseHeaderFramedMessages(buf, chunk) == HeaderLoop(Buffered(buf, chunk), <<>>)

\* the while loop of parseNewlineDelimitedMessages
RECURSIVE NewlineLoop(_, _)
NewlineLoop(buf, messages) ==
  LET newlineIdx == indexOf(buf, <<"\n">>)
      line == trim(SubSeq(buf, 1, newlineIdx - 1))
  IN IF newlineIdx = 0 THEN [buffer |-> buf, messages |-> messages]
     ELSE NewlineLoop(SubSeq(buf, newlineIdx + 1, Len(buf)),
                      IF line # <<>> /\ IsJson(line) THEN Append(messages, JSONparse(line))
                      ELSE messages)

parseNewlineDelimitedMessages(buf, chunk) == NewlineLoop(Buffered(buf, chunk), <<>>)

\* framing = chunk.includes("Content-Length:") ? "lsp" : "newline"
DetectFraming(chunk) == IF includes(chunk, CONTENT_LENGTH) THEN "lsp" ELSE "newline"

\* the parser the 'data' callback calls
Decode(fr, buf, chunk) ==
  IF fr = "lsp" THEN parseHeaderFramedMessages(buf, chunk)
  ELSE parseNewlineDelimitedMessages(buf, chunk)

\* ------------------------------------------------- a client that sends text
\* the JSON values a peer sends
Object == <<"{", "}">>
Accented == <<"\"", "é", "\"">>

\* a header-framed unit as a peer writes it: the header line, a blank line,
\* and a body of as many bytes as the header declares
Unit(value) == writeJson(value, "lsp")

\* the same unit with its header name in lower case
LowerCaseUnit(value) == [i \in 1..Len(Unit(value)) |-> FoldCase(Unit(value)[i])]

\* header blocks without a Content-Length and with one that is no number
OtherHeader == <<"X", ":", " ", "1">> \o BlankLine
BadLength == CONTENT_LENGTH \o <<" ", "x">> \o BlankLine

\* units whose header block is malformed: without a body and with one
MalformedUnits == {OtherHeader, BadLength, OtherHeader \o Object, BadLength \o Object}

WellFormedUnits == {Unit(Object), Unit(Accented)}

Pieces ==
  WellFormedUnits \cup {LowerCaseUnit(Object)} \cup MalformedUnits
  \cup { writeJson(Object, "newline"), <<" ", "1", " ", "\r", "\n">>, <<"\n">>, <<"}", "\n">>,
         <<"{">> }

RECURSIVE Concat(_)
Concat(pieces) == IF pieces = <<>> THEN <<>> ELSE Head(pieces) \o Concat(Tail(pieces))

Streams == {Concat(ps) : ps \in UNION {[1..n -> Pieces] : n \in 1..MaxPieces}}

FrInit ==
  /\ input = <<>>
  /\ fed = 0
  /\ several = FALSE
  /\ framing = "null"
  /\ buffer = <<>>
  /\ parsed = <<>>

\* the client decides what it will send
Connect(stream) ==
  /\ input = <<>>
  /\ input' = stream
  /\ UNCHANGED <<fed, several, framing, buffer, parsed>>
  /\ UNCHANGED <<memVars, kbVars, srvVars, utilVars>>

\* process.stdin.on("data") with the next n characters, up to the parsing
OnChunk(n) ==
  LET chunk == SubSeq(input, fed + 1, fed + n)
      fr == IF framing = "null" THEN DetectFraming(chunk) ELSE framing
      messages == Decode(fr, buffer, chunk)
  IN /\ fed + n <= Len(input)
     /\ framing' = fr
     /\ buffer' = messages.buffer
     /\ parsed' = parsed \o messages.messages
     /\ fed' = fed + n
     /\ several' = (fed > 0)
     /\ UNCHANGED input
     /\ UNCHANGED <<memVars, kbVars, srvVars, utilVars>>

FramingNext ==
  \/ \E stream \in Streams : Connect(stream)
  \/ \E n \in 1..(Len(input) - fed) : OnChunk(n)

\* -------------------------------------------------------- specifications
vars == <<memVars, kbVars, srvVars, frVars, utilVars>>

Init == MemInit /\ KbInit /\ SrvInit /\ FrInit /\ LruInit /\ RetryInit

Spec == Init /\ [][SrvNext]_vars

\* the continuation of a 'data' callback is a microtask and runs; a request
\* to the vector index is answered or aborted by its 5 second timer
SpecLive ==
  /\ Init /\ [][LiveNext]_vars
  /\ WF_vars(\E t \in 1..Len(tasks) : Step(t))
  /\ WF_vars(\E t \in 1..Len(tasks), outcome \in Outcomes, applied \in BOOLEAN :
               FetchDone(t, outcome, applied))

SpecMemory == Init /\ [][MemNext]_vars

SpecCalls == Init /\ [][CallNext]_vars

SpecHandshake == Init /\ [][HandshakeNext]_vars

SpecEntries == Init /\ [][EntriesNext]_vars

SpecPages == Init /\ [][PagesNext]_vars

SpecKb == Init /\ [][KbNext]_vars

SpecFraming == Init /\ [][FramingNext]_vars

SpecSearch == Init /\ [][SearchNext]_vars

SpecPurge == Init /\ [][PurgeNext]_vars

SpecBoth == Init /\ [][BothNext]_vars

SpecRetry == Init /\ [][RetryNext]_vars

SpecTagged == Init /\ [][TaggedNext]_vars

SpecCache == Init /\ [][CacheNext]_vars

\* ------------------------------------------------------ claims on the server
NotInitializedError(id) == jsonRpcError(id, -32002, "Server not initialized")

Awaiting == {t \in 1..Len(tasks) : tasks[t].awaiting # 0}

\* C2: while the server is not ready, a request with an id whose method is
\* neither initialize nor ping is answered with the 'Server not initialized'
\* error, code -32002, no tool handler runs and the stores are unchanged; a
\* ping request is answered with the empty result whatever the state.
C2_NotReadyRejects ==
  [][lastSrv'.n # lastSrv.n =>
       LET m == lastSrv'.msg
       IN /\ (Request(m) /\ m.method = "ping") =>
               /\ lastSrv'.resp = jsonRpcResult(m.id, "{}")
               /\ out' = Append(out, lastSrv'.resp)
          /\ (Request(m) /\ ~lastSrv'.readyBefore /\ m.method \notin {"initialize", "ping"}) =>
               /\ lastSrv'.resp = NotInitializedError(m.id)
               /\ out' = Append(out, lastSrv'.resp)
               /\ ~lastSrv'.ranHandler
               /\ UNCHANGED <<memory, memory_fts, queryCache, kb_fts, kb_meta, qdrant, kbOps>>]_vars

C2_Witness ==
  /\ lastSrv.n > 0 /\ ~lastSrv.readyBefore
  /\ lastSrv.msg.method = "tools/call" /\ lastSrv.msg.name = "memory.store"
  /\ lastSrv.resp = NotInitializedError(lastSrv.msg.id)
  /\ \E i \in 1..Len(out) : out[i].body = "{}"

\* C3: when the process exits on the end-of-input path, every request with an
\* id that was decoded from the input has had its response written.
C3_NoResponseLost ==
  ExitedOnEnd => \A id \in decoded : \E i \in 1..Len(out) : out[i].id = id

\* C4: the in-flight counter is never negative and equals the number of
\* messages whose handling has started and not finished; the process exits
\* only when end-of-input was seen and the counter is zero, so no handler is
\* running then.
C4_InFlightCounts ==
  /\ inFlight >= 0
  /\ inFlight = Cardinality(Awaiting)
  /\ ExitedOnEnd => (stdinEnded /\ inFlight = 0 /\ Awaiting = {})

C4_Witness ==
  /\ exited = "finally"
  /\ \E i \in 1..Len(out) : out[i].body = "added"

\* C29: once end-of-input has been signalled, the process exits: at once
\* when no handler is in flight, and otherwise when the handlers in flight
\* have completed.
C29_ExitsAfterEnd == stdinEnded ~> Exited

\* end-of-input came while kb.add awaited the vector index; the request
\* failed, its error was written and the process exited
C29_Witness ==
  /\ stdinEnded /\ exited = "finally"
  /\ \E i \in 1..Len(out) : out[i].kind = "error" /\ out[i].code = -32000

\* C11: a process ended by a termination signal ended with no handler in
\* flight, as on the end-of-input path.
C11_SignalExitsGracefully == exited = "signal" => (inFlight = 0 /\ Awaiting = {})

\* the responses written for request id
ResponsesTo(id) == {i \in 1..Len(out) : out[i].id = id}

\* C12: a failure raised while a tool call executes (a validation failure,
\* the not-found failure of memory.update, a failure of the external vector
\* index) reaches the caller as an error response with the code and the
\* message of that failure.
C12_OwnCodeAndMessage ==
  lastErr # NoError =>
    \E i \in ResponsesTo(lastErr.id) :
      out[i].kind = "error" /\ out[i].code = lastErr.code /\ out[i].body = lastErr.message

\* C13: an error thrown while a request is handled gives exactly one error
\* response for that request, leaves the readiness, the memory entries and
\* the other kb documents as they were, removes every row of the failed
\* document, and does not end the process.
C13_OneErrorResponse ==
  [][lastErr' # lastErr =>
       /\ Len(out') = Len(out) + 1
       /\ out'[Len(out')].id = lastErr'.id /\ out'[Len(out')].kind = "error"
       /\ \A i \in 1..Len(out) : out[i].id # lastErr'.id
       /\ initialized' = initialized
       /\ memory' = memory /\ memory_fts' = memory_fts
       /\ IF lastKb' # lastKb
          THEN /\ kb_fts' = {r \in kb_fts : r.doc # lastKb'.ret.doc}
               /\ kb_meta' = {m \in kb_meta : m.rowid # lastKb'.ret.id}
          ELSE kb_fts' = kb_fts /\ kb_meta' = kb_meta
       /\ ~stdinEnded => exited' = "no"]_vars

\* a kb.add failed on the external index and a later request succeeded
C13_Witness ==
  /\ lastErr # NoError /\ lastErr.message = "Qdrant error (500)"
  /\ \E i, j \in 1..Len(out) : i < j /\ out[i].id = lastErr.id /\ out[j].kind = "result"

\* C14: a message without a string or number id never produces a response,
\* whatever its method and the protocol state, and no tool handler runs
\* for it.
C14_NotificationsSilent ==
  [][(lastSrv'.n # lastSrv.n /\ lastSrv'.msg.id = NoId) =>
       (out' = out /\ lastSrv'.resp = NoResponse /\ ~lastSrv'.ranHandler)]_vars

\* a tools/call without id and without name met a ready server
C14_Witness ==
  /\ lastSrv.n > 0 /\ lastSrv.msg.id = NoId /\ lastSrv.msg.method = "tools/call"
  /\ lastSrv.readyBefore /\ out # <<>>

\* C34: handling a message without an id runs no tool handler and leaves
\* the tables, the vector index and the query cache as they were; it changes
\* initialized only if its method is notifications/initialized, and it
\* changes neither inFlight nor stdinEnded nor ends the process.
C34_NotificationFrame ==
  [][(lastSrv'.n # lastSrv.n /\ lastSrv'.msg.id = NoId)
       => /\ ~lastSrv'.ranHandler
          /\ UNCHANGED <<memory, memory_fts, queryCache, lastPurge, nextId>>
          /\ UNCHANGED <<kb_fts, kb_meta, qdrant, kbOps, addCount>>
          /\ UNCHANGED <<inFlight, stdinEnded, exited>>
          /\ (initialized' # initialized
                => lastSrv'.msg.method = "notifications/initialized" /\ initialized')]_vars

\* an initialize without id met a ready server, which stayed ready
C34_Witness ==
  /\ lastSrv.n > 0 /\ lastSrv.msg.id = NoId /\ lastSrv.msg.method = "initialize"
  /\ lastSrv.msg.valid /\ lastSrv.readyBefore /\ initialized

ToolCall(m) == Request(m) /\ m.method = "tools/call"

\* C15: for a tools/call, a handler runs only if the name is in the registry
\* and the arguments are valid, after exactly one call of validateInput; an
\* unknown name gets -32601 and invalid arguments get -32602, and then no
\* handler runs and the stores are unchanged.
C15_ValidateThenRun ==
  [][(lastSrv'.n # lastSrv.n /\ ToolCall(lastSrv'.msg) /\ lastSrv'.readyBefore) =>
       LET m == lastSrv'.msg
           known == m.name \in {"memory.store", "memory.update", "kb.add"}
           rejected == /\ ~lastSrv'.ranHandler
                       /\ out' = Append(out, lastSrv'.resp)
                       /\ UNCHANGED <<memory, memory_fts, queryCache, kb_fts, kb_meta, qdrant, kbOps>>
       IN /\ lastSrv'.ranHandler => (known /\ m.args # "invalid" /\ lastSrv'.validated = 1)
          /\ lastSrv'.validated <= 1
          /\ ~known => (lastSrv'.resp.code = -32601 /\ lastSrv'.validated = 0 /\ rejected)
          /\ (known /\ m.args = "invalid") => (lastSrv'.resp.code = -32602 /\ rejected)]_vars

\* invalid arguments were rejected on a server that holds an entry
C15_Witness ==
  /\ lastSrv.n > 0 /\ lastSrv.readyBefore /\ ToolCall(lastSrv.msg)
  /\ lastSrv.msg.args = "invalid" /\ lastSrv.resp.code = -32602
  /\ memory # {}

\* the requests decoded from chunk c
Chunk(id) == id \div 10

Answered(id) == \E i \in 1..Len(out) : out[i].id = id

\* C22: the messages decoded from one chunk, the elements of its arrays
\* included, are handled one at a time in the order they were parsed: when
\* the handling of a request starts, every request parsed before it from the
\* same chunk has its response written, and the responses to the requests
\* of one chunk are written in the order of the requests.
C22_HandledInParseOrder ==
  /\ [](\A i, j \in 1..Len(out) :
          (i < j /\ Chunk(out[i].id) = Chunk(out[j].id)) => out[i].id < out[j].id)
  /\ [][(lastSrv'.n # lastSrv.n /\ lastSrv'.msg.id # NoId) =>
          \A id \in decoded :
            (Chunk(id) = Chunk(lastSrv'.msg.id) /\ id < lastSrv'.msg.id) => Answered(id)]_vars

\* two requests of one chunk are answered, the first of them by kb.add
\* after its await, while a later chunk was already decoded
C22_Witness ==
  /\ \E i, j \in 1..Len(out) : i < j /\ Chunk(out[i].id) = Chunk(out[j].id)
                                /\ out[i].body = "added"
  /\ chunks = MaxChunks

\* what is still to be delivered
Rest == SubSeq(input, fed + 1, Len(input))

\* C23: under the framing in use, the values decoded so far followed by the
\* values decoded from what is still to come are the values decoded from the
\* whole input in one piece, and the buffer ends the same: the cuts between
\* the chunks do not matter, and an incomplete last message waits in the
\* buffer.
C23_ChunkingIrrelevant ==
  framing # "null" =>
    /\ parsed \o Decode(framing, buffer, Rest).messages = Decode(framing, <<>>, input).messages
    /\ Decode(framing, buffer, Rest).buffer = Decode(framing, <<>>, input).buffer

\* a header-framed input of two units was delivered in more than one chunk
\* and both units were decoded
C23_Witness ==
  /\ framing = "lsp" /\ several /\ fed = Len(input)
  /\ parsed = <<Object, Object>>
  /\ buffer = <<>>

\* the first line of the input, when it is complete
FirstLine == SubSeq(input, 1, indexOf(input, CRLF) - 1)

\* C24: a connection whose input begins with a Content-Length header line,
\* in whatever letter case, is decoded as header-framed.
C24_HeaderLineMeansHeaderFramed ==
  (framing # "null" /\ indexOf(input, CRLF) # 0 /\ ContentLengthOf(FirstLine) # NULL)
    => framing = "lsp"

\* C25: a message written by writeJson in header framing, delivered whole to
\* the header-framed decoder, is decoded back to the value that was written
\* and leaves the buffer empty, also when its text holds a character of
\* more than one byte.
C25_WrittenUnitDecodes ==
  \A value \in {Object, Accented} :
    (input = writeJson(value, "lsp") /\ framing = "lsp" /\ fed = Len(input))
      => (parsed = <<value>> /\ buffer = <<>>)

\* C26: in header framing, a well-formed unit that follows a unit with a
\* missing or invalid Content-Length is decoded.
C26_MalformedUnitSkipped ==
  \A bad \in MalformedUnits :
    (input = bad \o Unit(Object) /\ framing = "lsp" /\ fed = Len(input))
      => parsed = <<Object>>

\* C9: the server is ready only if an initialize request was accepted earlier
\* and a notifications/initialized notification was received after it.
C9_ReadyOnlyAfterHandshake == initialized => (initAccepted /\ ~initPending)

\* C10: after an accepted initialize request, and until the next
\* notifications/initialized notification, the server is not ready and every
\* request other than initialize and ping gets the 'not initialized' error.
C10_InitializeResets ==
  /\ initPending => ~initialized
  /\ (lastSrv.n > 0 /\ lastSrv.pendingBefore /\ Request(lastSrv.msg)
        /\ lastSrv.msg.method \notin {"initialize", "ping"})
       => (lastSrv.resp = NotInitializedError(lastSrv.msg.id) /\ ~lastSrv.ranHandler)

C10_Witness ==
  /\ lastSrv.n > 0 /\ lastSrv.pendingBefore
  /\ lastSrv.resp = NotInitializedError(lastSrv.msg.id)
  /\ \E i, j \in 1..Len(out) : i < j /\ out[i].body = "tools" /\ out[j].body = "2025-03-26"

\* C30: an initialize request whose protocolVersion is a non-empty string is
\* answered with that version when it is supported and with the first
\* supported version otherwise; one whose protocolVersion is missing, not a
\* string or empty is answered with the invalid-params error -32602 and
\* leaves the readiness of the server as it was.
C30_VersionNegotiation ==
  (lastSrv.n > 0 /\ Request(lastSrv.msg) /\ lastSrv.msg.method = "initialize") =>
    LET requested == lastSrv.msg.version
    IN IF requested \in {Undefined, NotAString, ""}
       THEN /\ lastSrv.resp.kind = "error" /\ lastSrv.resp.code = -32602
            /\ lastSrv.resp.id = lastSrv.msg.id
            /\ initialized = lastSrv.readyBefore
            /\ initPending = lastSrv.pendingBefore
       ELSE /\ lastSrv.resp.kind = "result" /\ lastSrv.resp.id = lastSrv.msg.id
            /\ lastSrv.resp.body = IF requested \in Range(SUPPORTED_PROTOCOL_VERSIONS)
                                   THEN requested ELSE "2025-06-18"

\* the preferred version and the oldest supported one have been answered,
\* and an initialize whose version is not a string has got the error
C30_Witness ==
  /\ lastSrv.n > 0 /\ lastSrv.msg.method = "initialize" /\ lastSrv.msg.version = NotAString
  /\ lastSrv.resp.kind = "error"
  /\ \E i \in 1..Len(out) : out[i].body = "2025-06-18"
  /\ \E i \in 1..Len(out) : out[i].body = "2024-11-05"

\* ---------------------------------------------------- claims on the kb tools
InFts(doc) == \E r \in kb_fts : r.doc = doc

InQdrant(doc) == \E pt \in qdrant.points : pt.doc = doc

\* C5: whenever no kb.add is in progress, a document added with a vector is
\* in the local text index if and only if its point is in the external
\* vector index.
C5_BothOrNeither ==
  kbOps = {} => \A doc \in vecDocs : InFts(doc) <=> InQdrant(doc)

\* C6: when the external step of a kb.add with a vector fails, kb.add fails
\* with the error of that step, and afterwards the document has no row in
\* kb_fts and its id no row in kb_meta: a lookup by its title finds no row
\* of it.
C6_RollbackOnFailure ==
  lastKb.ret.status = "failed"
    => /\ lastKb.ret.error \in {qdrantError(o) : o \in Outcomes \ {"ok"}}
       /\ ~InFts(lastKb.ret.doc)
       /\ \A r \in kb_fts : r.id # lastKb.ret.id
       /\ \A m \in kb_meta : m.rowid # lastKb.ret.id
       /\ \A r \in kb_fts : r.title = lastKb.ret.title => r.doc # lastKb.ret.doc

\* a project-scoped kb.add with a vector has just failed
C6_Witness ==
  /\ lastKb.ret.status = "failed"
  /\ lastKb.ret.doc \in vecDocs
  /\ lastKb.ret.error = "Qdrant error (500)"
  /\ kb_fts # {}

\* C16: kb.search called with a project_id returns only documents that were
\* added with that project_id, in every search mode.
C16_KbProjectIsolation ==
  (lastKb.op = "kb.search" /\ lastKb.ret.project_id \in {"A", "B"})
    => \A i \in 1..Len(lastKb.ret.rows) : lastKb.ret.rows[i].owner = lastKb.ret.project_id

\* C32: a kb.add with a vector that fails was not, at the call before its
\* failure, returned by a kb.search handled while it was suspended.
C32_SearchNeverSeesFailedAdd ==
  [][(lastKb'.op = "kb.add" /\ lastKb'.ret.status = "failed")
       => ~(/\ lastKb.op = "kb.search"
            /\ \E i \in 1..Len(lastKb.ret.rows) : lastKb.ret.rows[i].doc = lastKb'.ret.doc)]_vars

\* C38: the id a kb.add assigns is greater than the id of the kb.add that
\* was last started, resumed or rolled back.
C38_IdsIncrease ==
  [][addCount' = addCount + 1 => lastKb'.ret.id > lastKb.ret.id]_vars

\* C40: a kb.add that succeeds leaves the query cache empty.
C40_KbAddClearsCache ==
  [][(lastKb' # lastKb /\ lastKb'.op = "kb.add" /\ lastKb'.ret.status = "ok")
       => queryCache' = <<>>]_vars

\* ------------------------------------------------- claims on the memory tools
RowsOf(call) == {call.ret.rows[i] : i \in 1..Len(call.ret.rows)}

\* C1: an entry stored under one project is never in the result of a
\* memory.search or memory.list issued with another project_id, and a
\* memory.update or memory.delete issued with another project_id neither
\* changes nor removes it.
C1_ProjectIsolation ==
  [][ /\ lastMem'.op \in {"memory.search", "memory.list"}
           => \A r \in RowsOf(lastMem') :
                /\ r.project_id = lastMem'.project_id
                /\ \A m \in memory' : m.id = r.id => m.project_id = lastMem'.project_id
      /\ lastMem'.op \in {"memory.update", "memory.delete"}
           => {m \in memory : m.project_id # lastMem'.project_id}
                = {m \in memory' : m.project_id # lastMem'.project_id} ]_vars

\* a search by project B that returns rows while project A holds an entry
\* with the same tag
C1_Witness ==
  /\ lastMem.op = "memory.search"
  /\ lastMem.project_id = "B"
  /\ lastMem.ret.rows # <<>>
  /\ \E m \in memory : m.project_id = "A" /\ ~m.tags.isNull

\* C7: after a successful memory.store, memory.update or memory.delete no
\* memory.search is answered with a result cached before that mutation: what
\* the cache holds, and what a search returns from it, was computed from the
\* table as it is now.
C7_NoStaleCachedResult ==
  /\ \A i \in 1..Len(queryCache) : queryCache[i].result.asOf = memory
  /\ lastMem.op = "memory.search" => lastMem.ret.asOf = memory

\* a search answered from the cache after entries were stored
C7_Witness ==
  /\ lastMem.op = "memory.search"
  /\ lastMem.ret.hit
  /\ lastMem.ret.rows # <<>>

Unexpired(project_id) ==
  {r \in memory : r.project_id = project_id
                    /\ (r.expires_at = NULL \/ Instant(r.expires_at) > now)}

\* C18: memory.list returns no entry whose expires_at is at or before the
\* current time, and total_count does not count one.
C18_ListExcludesExpired ==
  lastMem.op = "memory.list" =>
    /\ \A r \in RowsOf(lastMem) : r.expires_at = NULL \/ Instant(r.expires_at) > now
    /\ lastMem.ret.total_count <= Cardinality(Unexpired(lastMem.project_id))

Entry(mem, id, project_id) == {r \in mem : r.id = id /\ r.project_id = project_id}

\* C19: a successful memory.update changes in its entry only content, tags
\* and expires_at, and of these only the ones supplied (an empty expires_at
\* clears the expiry), besides updated_at; every other entry is unchanged.
C19_UpdateChangesOnlySupplied ==
  [][(lastMem'.op = "memory.update" /\ lastMem'.ret.ok) =>
       \E e \in Entry(memory, lastMem'.ret.id, lastMem'.project_id) :
         \E f \in Entry(memory', lastMem'.ret.id, lastMem'.project_id) :
           LET a == lastMem'.ret.args
           IN /\ memory' \ {f} = memory \ {e}
              /\ f.id = e.id /\ f.project_id = e.project_id /\ f.scope = e.scope
              /\ f.created_at = e.created_at /\ f.rowid = e.rowid
              /\ a.content.isNull => f.content = e.content
              /\ a.tags.isNull => f.tags = e.tags
              /\ a.expires_at = NULL => f.expires_at = e.expires_at
              /\ a.expires_at = EmptyString => f.expires_at = NULL]_vars

\* the expiry of an entry that had one was cleared, its tags kept
C19_Witness ==
  /\ lastMem.op = "memory.update" /\ lastMem.ret.ok
  /\ lastMem.ret.args.expires_at = EmptyString
  /\ \E r \in memory : r.id = lastMem.ret.id /\ r.expires_at = NULL /\ ~r.tags.isNull
  /\ Cardinality(memory) = 2

\* C20: memory.update for an (id, project_id) that matches no entry fails with
\* the not-found error and changes no entry, no row of memory_fts and not
\* the query cache.
C20_UpdateNotFound ==
  [][lastMem'.op = "memory.update" =>
       IF Entry(memory, lastMem'.ret.id, lastMem'.project_id) = {}
       THEN /\ ~lastMem'.ret.ok
            /\ lastMem'.ret.error.message = "Memory entry not found"
            /\ UNCHANGED <<memory, memory_fts, queryCache>>
       ELSE lastMem'.ret.ok]_vars

\* project B failed to update an entry of project A while the cache held a result
C20_Witness ==
  /\ lastMem.op = "memory.update" /\ ~lastMem.ret.ok /\ lastMem.project_id = "B"
  /\ \E r \in memory : r.id = lastMem.ret.id
  /\ queryCache # <<>>

\* C21: memory.delete of an (id, project_id) that matches no entry returns
\* deleted = false without an error and leaves the table, the shadow index
\* and the cache as they were; memory.delete of an existing entry returns
\* deleted = true and removes exactly that entry from the table and its row
\* from the shadow index, so that the same delete, repeated, matches no entry.
C21_DeleteIdempotent ==
  [][lastMem'.op = "memory.delete" =>
       LET e == Entry(memory, lastMem'.ret.id, lastMem'.project_id)
       IN /\ lastMem'.ret.ok
          /\ IF e = {}
             THEN /\ ~lastMem'.ret.deleted
                  /\ UNCHANGED <<memory, memory_fts, queryCache>>
             ELSE /\ lastMem'.ret.deleted
                  /\ memory' = memory \ e
                  /\ \A r \in e : \A f \in memory_fts' : f.rowid # r.rowid
                  /\ Entry(memory', lastMem'.ret.id, lastMem'.project_id) = {}
                  /\ ~memoryDelete([memory |-> memory', memory_fts |-> memory_fts',
                                    queryCache |-> queryCache', lastPurge |-> lastPurge',
                                    nextId |-> nextId'],
                                   lastMem'.ret.id, lastMem'.project_id, now').ret.deleted]_vars

\* the same delete, repeated: the entry of this id is gone, the delete has
\* found nothing, and another entry and a cached search are still there
C21_Witness ==
  /\ lastMem.op = "memory.delete"
  /\ lastMem.ret.ok /\ ~lastMem.ret.deleted
  /\ \A r \in memory : r.id # lastMem.ret.id
  /\ memory # {}
  /\ queryCache # <<>>

\* C27: memory.search without a scope returns entries of scope "default"
\* only, whatever the search mode.
C27_OmittedScopeIsDefault ==
  (lastMem.op = "memory.search" /\ lastMem.ret.search.scope = Undefined) =>
    \A r \in RowsOf(lastMem) : r.scope = DEFAULT_SCOPE

\* the entries memory.search is asked for: those of the project and scope
Asked(call) ==
  {r \in memory : /\ r.project_id = call.project_id
                  /\ r.scope = IF call.ret.search.scope = Undefined THEN DEFAULT_SCOPE
                               ELSE call.ret.search.scope}

\* C28: memory.search with an empty or blank query and no tag uses as limit
\* the requested limit capped at 100, and 5 when the limit is absent or not
\* positive, and returns that many of the entries of the project and scope,
\* or all of them when there are fewer: the most recent ones, ordered by
\* created_at descending.
C28_EmptyQueryReturnsLatest ==
  (lastMem.op = "memory.search" /\ Trim(lastMem.ret.search.query) = <<>>
     /\ lastMem.ret.search.tag.isNull) =>
    LET a == lastMem.ret.search
        rows == lastMem.ret.rows
        ids == {rows[i].id : i \in 1..Len(rows)}
    IN /\ a.effective = IF a.limit = NULL \/ a.limit <= 0 THEN 5
                        ELSE IF a.limit > 100 THEN 100 ELSE a.limit
       /\ ids \subseteq {r.id : r \in Asked(lastMem)}
       /\ Cardinality(ids) = Len(rows)
       /\ Len(rows) = Min(a.effective, Cardinality(Asked(lastMem)))
       /\ \A i, k \in 1..Len(rows) : i < k => rows[i].created_at >= rows[k].created_at
       /\ \A r \in Asked(lastMem) :
            r.id \notin ids => \A i \in 1..Len(rows) : rows[i].created_at >= r.created_at

\* of two entries of one project and scope, stored at different times, a
\* search with a blank query and limit 1 has returned the later one
C28_Witness ==
  /\ lastMem.op = "memory.search"
  /\ lastMem.ret.search.query = <<" ">> /\ lastMem.ret.search.limit = 1
  /\ Len(lastMem.ret.rows) = 1
  /\ \E r \in Asked(lastMem) : r.created_at < lastMem.ret.rows[1].created_at

\* the arguments of the memory.search call
SearchArgs(call) ==
  [project_id |-> call.project_id, scope |-> call.ret.search.scope,
   query |-> call.ret.search.query, tag |-> call.ret.search.tag,
   limit |-> call.ret.search.limit, use_fts |-> call.ret.search.use_fts]

\* C33: after every memory.store, memory.update, memory.delete and purge
\* the shadow table memory_fts holds exactly one row per entry of memory,
\* with that entry's content and tags, and no other row.
C33_ShadowIndexInStep ==
  /\ \A r \in memory :
       /\ \E f \in memory_fts :
            f.rowid = r.rowid /\ f.content = r.content /\ f.tags = TagsText(r)
       /\ Cardinality({f \in memory_fts : f.rowid = r.rowid}) = 1
  /\ \A f \in memory_fts : \E r \in memory : r.rowid = f.rowid

\* a memory.update has changed the content and the tags of an entry while
\* another entry was stored
C33_Witness ==
  /\ lastMem.op = "memory.update"
  /\ lastMem.ret.ok
  /\ ~lastMem.ret.args.content.isNull
  /\ Cardinality(memory) = 2
  /\ \E r \in memory : r.id = lastMem.ret.id /\ r.content = lastMem.ret.args.content.v

\* C35: for each project two executions of the purge are at least 60
\* seconds apart, and a memory.list or memory.search of a project whose last
\* purge is 60 seconds old or older executes the purge, whenever the other
\* projects were purged, and leaves their purge times alone.
C35_PurgeThrottledPerProject ==
  [][/\ \A p \in Projects :
          lastPurge'[p] # lastPurge[p]
            => /\ lastPurge'[p] = now
               /\ lastPurge[p] # 0 => lastPurge'[p] - lastPurge[p] >= PURGE_INTERVAL_MS
               /\ lastMem'.project_id = p
     /\ \A p \in Projects :
          (/\ lastMem'.op \in {"memory.list", "memory.search"}
           /\ lastMem'.project_id = p
           /\ now - lastPurge[p] >= PURGE_INTERVAL_MS)
            => /\ lastPurge'[p] = now
               /\ selectExpiredStmt(memory', p, toISOString(now)) = {}]_vars

\* project A was purged a second time 60 seconds after its first purge, and
\* project B in between, 30 seconds after the first purge of A
C35_Witness ==
  /\ lastPurge["A"] = T0 + PURGE_INTERVAL_MS
  /\ lastPurge["B"] = T0 + 30000
  /\ lastMem.op = "memory.list" /\ lastMem.project_id = "A"

\* C36: the query cache holds what a reference LRU cache of capacity 50
\* with an expiry time per entry holds after the same calls, in the order
\* of last use, each get has returned what the reference returns, the cache
\* never holds more than 50 entries, and it is empty after a clear.
C36_BehavesAsReferenceLRU ==
  /\ Len(queryCache) <= CACHE_MAX_SIZE
  /\ Cardinality(reference) = Len(queryCache)
  /\ \A i \in 1..Len(queryCache) :
       [key |-> queryCache[i].key, result |-> queryCache[i].result,
        expires |-> queryCache[i].expires, rank |-> i] \in reference
  /\ lastCache.found = lastCache.refFound
  /\ lastCache.data = lastCache.refData
  /\ lastCache.op = "clear" => queryCache = <<>>

\* the set of a new key has met a full cache whose least recently used key
\* was key 2, key 1 having been read after it was set: key 2 is evicted
\* and key 1 is kept
C36_Witness ==
  /\ lastCache.op = "set" /\ lastCache.key = CACHE_MAX_SIZE + 1
  /\ Len(queryCache) = CACHE_MAX_SIZE
  /\ HasKey(queryCache, CacheKey(1))
  /\ ~HasKey(queryCache, CacheKey(2))
  /\ HasKey(queryCache, CacheKey(3))

\* the entries of the project and scope that match the text of the call and
\* carry its tag
AskedWithTag(call) ==
  {r \in Asked(call) :
     /\ Like(r.content, Trim(call.ret.search.query))
     /\ ~formatRow(r).tags.isNull
     /\ \E i \in 1..Len(formatRow(r).tags.v) : formatRow(r).tags.v[i] = call.ret.search.tag.v}

\* C37: memory.search with a text and a tag returns, of the entries that
\* match the text and carry the tag, as many as the limit says, or all of
\* them when there are fewer: the most recent ones.
C37_TextAndTagFillLimit ==
  (lastMem.op = "memory.search" /\ Trim(lastMem.ret.search.query) # <<>>
     /\ ~lastMem.ret.search.tag.isNull) =>
    LET rows == lastMem.ret.rows
        ids == {rows[i].id : i \in 1..Len(rows)}
    IN /\ ids \subseteq {r.id : r \in AskedWithTag(lastMem)}
       /\ Len(rows) = Min(lastMem.ret.search.effective, Cardinality(AskedWithTag(lastMem)))
       /\ \A r \in AskedWithTag(lastMem) :
            r.id \notin ids => \A i \in 1..Len(rows) : rows[i].created_at >= r.created_at

\* malformed or missing arguments: an error with the code -32602
IsValidationError(error) == error.code = -32602

\* C39: retryOperation invokes the operation no more after a validation
\* error and no more after a success, and at most maxRetries times; it
\* returns the result of the first success, and it throws the last error
\* when that is a validation error or when maxRetries invocations failed.
C39_RetryStopsAtValidationError ==
  LET h == retry.invoked
  IN /\ \A i \in 1..(Len(h) - 1) : h[i] # Success /\ ~IsValidationError(h[i])
     /\ retry.status # "idle" => Len(h) <= retry.maxRetries
     /\ retry.status = "running"
          => Len(h) < retry.maxRetries
             /\ (Len(h) > 0 => h[Len(h)] # Success /\ ~IsValidationError(h[Len(h)]))
     /\ retry.status = "returned" => h[Len(h)] = Success /\ retry.result = Success
     /\ retry.status = "thrown"
          => /\ h[Len(h)] # Success /\ retry.result = h[Len(h)]
             /\ IsValidationError(h[Len(h)]) \/ Len(h) = retry.maxRetries

\* C31: while no entry expires, what memory.search returns is what the same
\* call computes from the tables without the cache.
C31_CacheTransparent ==
  lastMem.op = "memory.search" => lastMem.ret.rows = searchRows(Store, SearchArgs(lastMem))

\* C8: an entry whose expires_at is in the past is absent from every
\* memory.search result of its project.
C8_ExpiredAbsentFromSearch ==
  lastMem.op = "memory.search"
    => \A r \in RowsOf(lastMem) : r.expires_at = NULL \/ Instant(r.expires_at) >= now

====
